---- MODULE Spec2Model ----
(***************************************************************************)
(* A model of the claude-color core: the colour conversion layer, the      *)
(* colour-theory generators, the suggestion engine and the preference      *)
(* scorer.  The functions are pure; each specification below applies the   *)
(* functions of one component to inputs drawn from bounded sets and        *)
(* records the call in (op, arg, res).  The favorites store is the one     *)
(* stateful component: SpecStore runs its operations one call at a time    *)
(* on the manager's memory and its file; the other specifications leave    *)
(* the store untouched.  The backup copy of the file, which the program    *)
(* writes and never reads, is left out.                                    *)
(* SpecCallers runs two calls of the store side by side, a step for each   *)
(* stretch of a call between two awaits.  SpecEditor is the interactive    *)
(* palette editor, a step for each key pressed.                            *)
(*                                                                         *)
(* Numbers.  The code computes in IEEE-754 doubles and rounds with         *)
(* Math.round.  The model computes the same quotients exactly, as a        *)
(* numerator over a positive denominator, and rounds half up as Math.round *)
(* does.  Where the exact quotient is a half-integer the double the code   *)
(* actually rounds may sit one ulp below it, so the code returns either    *)
(* neighbour there.  A conversion rounds at most three different doubles   *)
(* (equal doubles round alike); fpTieUp[k] fixes for a whole behaviour     *)
(* which neighbour the k-th of them yields at a half-integer, and all      *)
(* eight choices are explored.                                             *)
(***************************************************************************)
EXTENDS Integers, Sequences, FiniteSets, TLC

VARIABLES
    op,       \* the function applied last ("init" before any call)
    arg,      \* the argument it was applied to
    res,      \* what it returned (an Err record when it threw)
    fpTieUp,  \* fpTieUp[k]: the k-th rounding of a call rounds a half up
    initialized,  \* FavoritesManager.initialized
    dbData,       \* FavoritesManager.db.data, the database in memory
    file,         \* the content of favorites.json
    tracked,      \* trackInteraction calls made since the log was last cleared
    pc,           \* pc[c]: where the call of caller c of the store stands
    reads,        \* db.read() calls started
    seen,         \* seen[c]: the file as it was when c's read started
    pending,      \* writes handed to the file writer and not yet on disk
    editorPalette,  \* PaletteEditor: the palette state
    selectedIndex,  \* PaletteEditor: the selectedIndex state
    mode,           \* PaletteEditor: the mode state
    editValue,      \* PaletteEditor: the editValue state, the text typed
    closed          \* PaletteEditor: "no", or how the editor was left

storeVars == <<initialized, dbData, file, tracked>>
callerVars == <<pc, reads, seen, pending>>
editorVars == <<editorPalette, selectedIndex, mode, editValue, closed>>
vars == <<op, arg, res, fpTieUp, storeVars, callerVars, editorVars>>

(***************************************************************************)
(* Bounds of the explored input sets.                                      *)
(***************************************************************************)
ChannelStep == 51
HueStep == 24
SatStep == 25
LightStep == 25

(***************************************************************************)
(* Helpers                                                                 *)
(***************************************************************************)
Max2(a, b) == IF a >= b THEN a ELSE b
Min2(a, b) == IF a <= b THEN a ELSE b
Max3(a, b, c) == Max2(a, Max2(b, c))
Min3(a, b, c) == Min2(a, Min2(b, c))
Abs(x) == IF x < 0 THEN -x ELSE x

Err(kind) == [error |-> kind]
\* compared as text: a returned sequence has integers in its domain
IsErr(x) == ToString(DOMAIN x) = ToString({"error"})

\* Math.round(n / d) for n >= 0, d > 0, as the k-th rounding of a call: the
\* nearest integer, a half rounded up; a half-integer n / d is rounded as
\* fpTieUp[k] says (see the header).
Round(n, d, k) ==
    LET up == (2 * n + d) \div (2 * d)
        tie == (2 * n + d) % (2 * d) = 0
    IN  IF tie /\ ~fpTieUp[k] THEN up - 1 ELSE up

(***************************************************************************)
(* Hex strings are sequences of one-character strings.                     *)
(***************************************************************************)
LowerHexDigits ==
    <<"0", "1", "2", "3", "4", "5", "6", "7", "8", "9", "a", "b", "c", "d", "e", "f">>
UpperHexDigits ==
    <<"0", "1", "2", "3", "4", "5", "6", "7", "8", "9", "A", "B", "C", "D", "E", "F">>

IsHexDigit(c) ==
    \E i \in 1..16 : c = LowerHexDigits[i] \/ c = UpperHexDigits[i]

\* parseInt(c, 16) of one hex digit
DigitValue(c) ==
    (CHOOSE i \in 1..16 : c = LowerHexDigits[i] \/ c = UpperHexDigits[i]) - 1

\* String.prototype.toUpperCase on one character
ToUpperCaseChar(c) ==
    IF \E i \in 11..16 : c = LowerHexDigits[i]
    THEN UpperHexDigits[CHOOSE i \in 11..16 : c = LowerHexDigits[i]]
    ELSE c

ToUpperCase(s) == [i \in 1..Len(s) |-> ToUpperCaseChar(s[i])]

\* n.toString(16).padStart(2, '0') for an integer 0 <= n <= 255
ToHex2(n) == <<LowerHexDigits[(n \div 16) + 1], LowerHexDigits[(n % 16) + 1]>>

\* hexToRgb: strip one leading '#', accept 3 or 6 hex digits, expand the
\* shorthand by doubling each digit, parse the three pairs.
hexToRgb(hex) ==
    LET cleaned == IF Len(hex) > 0 /\ hex[1] = "#" THEN Tail(hex) ELSE hex
        valid == /\ Len(cleaned) \in {3, 6}
                 /\ \A i \in 1..Len(cleaned) : IsHexDigit(cleaned[i])
        fullHex == IF Len(cleaned) = 3
                   THEN [i \in 1..6 |-> cleaned[(i + 1) \div 2]]
                   ELSE cleaned
        pair(i) == 16 * DigitValue(fullHex[i]) + DigitValue(fullHex[i + 1])
    IN  IF ~valid THEN Err("InvalidColorError")
        ELSE [r |-> pair(1), g |-> pair(3), b |-> pair(5)]

\* rgbToHex without padStart: a channel below 16 yields one digit.
rgbToHex_NoPad(rgb) ==
    LET digits(n) == IF n < 16 THEN <<LowerHexDigits[n + 1]>> ELSE ToHex2(n)
    IN  IF \E c \in {rgb.r, rgb.g, rgb.b} : c < 0 \/ c > 255
        THEN Err("ColorRangeError")
        ELSE ToUpperCase(<<"#">> \o digits(rgb.r) \o digits(rgb.g) \o digits(rgb.b))

\* rgbToHex on integer channels (Math.round is the identity on them): range
\* check r, g, b in that order, then '#' and three padded pairs, upper-cased.
rgbToHex(rgb) ==
    IF \E c \in {rgb.r, rgb.g, rgb.b} : c < 0 \/ c > 255
    THEN Err("ColorRangeError")
    ELSE ToUpperCase(<<"#">> \o ToHex2(rgb.r) \o ToHex2(rgb.g) \o ToHex2(rgb.b))

\* rgbToHsl.  With M, m the largest and smallest channel and d = M - m, the
\* code's l is (M + m) / 510, its s is d / (510 - M - m) when l > 0.5 and
\* d / (M + m) otherwise, and its h the six-sector formula on the first
\* channel (r, then g, then b) that equals the maximum.
rgbToHsl(rgb) ==
    LET M == Max3(rgb.r, rgb.g, rgb.b)
        m == Min3(rgb.r, rgb.g, rgb.b)
        d == M - m
        sixths == IF M = rgb.r
                  THEN (rgb.g - rgb.b) + (IF rgb.g < rgb.b THEN 6 * d ELSE 0)
                  ELSE IF M = rgb.g
                       THEN (rgb.b - rgb.r) + 2 * d
                       ELSE (rgb.r - rgb.g) + 4 * d
    IN  IF d = 0
        THEN [h |-> 0, s |-> 0, l |-> Round(100 * (M + m), 510, 3)]
        ELSE [h |-> Round(60 * sixths, d, 1),
              s |-> IF M + m > 255 THEN Round(100 * d, 510 - M - m, 2)
                                   ELSE Round(100 * d, M + m, 2),
              l |-> Round(100 * (M + m), 510, 3)]

\* hue2rgb of hslToRgb, times 60: p and q are scaled by 10^4 and t by 360.
hue2rgb(p, q, t) ==
    LET t1 == IF t < 0 THEN t + 360 ELSE t
        t2 == IF t1 > 360 THEN t1 - 360 ELSE t1
    IN  IF t2 < 60 THEN 60 * p + (q - p) * t2
        ELSE IF t2 < 180 THEN 60 * q
        ELSE IF t2 < 240 THEN 60 * p + (q - p) * (240 - t2)
        ELSE 60 * p

\* Which double a channel of hslToRgb is: 1 for p itself (hue2rgb returns p,
\* or p + (q - p) * 6 * 0), 2 for q itself, 3 for an interpolated value.
hueSite(t) ==
    LET t1 == IF t < 0 THEN t + 360 ELSE t
        t2 == IF t1 > 360 THEN t1 - 360 ELSE t1
    IN  IF t2 = 0 \/ t2 >= 240 THEN 1
        ELSE IF t2 >= 60 /\ t2 < 180 THEN 2
        ELSE 3

\* hslToRgb with the thirds swapped: r from h - 1/3 and b from h + 1/3.
hslToRgb_SwappedThirds(hsl) ==
    LET q == IF hsl.l < 50 THEN hsl.l * (100 + hsl.s)
                           ELSE 100 * hsl.l + 100 * hsl.s - hsl.l * hsl.s
        p == 200 * hsl.l - q
        channel(t) == Round(17 * hue2rgb(p, q, t), 40000, hueSite(t))
        gray == Round(255 * hsl.l, 100, 1)
    IN  IF hsl.s = 0
        THEN [r |-> gray, g |-> gray, b |-> gray]
        ELSE [r |-> channel(hsl.h - 120),
              g |-> channel(hsl.h),
              b |-> channel(hsl.h + 120)]

\* hslToRgb.  A channel is Math.round(255 * hue2rgb / (60 * 10^4)); the
\* achromatic branch rounds the one double l * 255 three times.
hslToRgb(hsl) ==
    LET q == IF hsl.l < 50 THEN hsl.l * (100 + hsl.s)
                           ELSE 100 * hsl.l + 100 * hsl.s - hsl.l * hsl.s
        p == 200 * hsl.l - q
        channel(t) == Round(17 * hue2rgb(p, q, t), 40000, hueSite(t))
        gray == Round(255 * hsl.l, 100, 1)
    IN  IF hsl.s = 0
        THEN [r |-> gray, g |-> gray, b |-> gray]
        ELSE [r |-> channel(hsl.h + 120),
              g |-> channel(hsl.h),
              b |-> channel(hsl.h - 120)]

\* createColorFromHex that echoes the input string instead of normalising it.
createColorFromHex_EchoInput(hex) ==
    LET rgb == hexToRgb(hex)
    IN  IF IsErr(rgb) THEN rgb
        ELSE [hex |-> hex, rgb |-> rgb, hsl |-> rgbToHsl(rgb)]

createColorFromHex(hex) ==
    LET rgb == hexToRgb(hex)
    IN  IF IsErr(rgb) THEN rgb
        ELSE [hex |-> rgbToHex(rgb), rgb |-> rgb, hsl |-> rgbToHsl(rgb)]

createColorFromRgb(rgb) ==
    LET hex == rgbToHex(rgb)
    IN  IF IsErr(hex) THEN hex
        ELSE [hex |-> hex, rgb |-> rgb, hsl |-> rgbToHsl(rgb)]

createColorFromHsl(hsl) ==
    LET rgb == hslToRgb(hsl)
        hex == rgbToHex(rgb)
    IN  IF IsErr(hex) THEN hex
        ELSE [hex |-> hex, rgb |-> rgb, hsl |-> hsl]

(***************************************************************************)
(* Colour theory generators.  Hues stay whole numbers in the model: the    *)
(* analogous generator is applied only to counts whose step divides 60.    *)
(***************************************************************************)
angleRange == 30
minLightness == 15
maxLightness == 85

\* JavaScript's %: the sign of the result is the sign of the dividend.
JsRem(a, b) == IF a >= 0 THEN a % b ELSE -((-a) % b)

normalizeHue(hue) ==
    LET normalized == JsRem(hue, 360)
    IN  IF normalized < 0 THEN normalized + 360 ELSE normalized

\* The colour a generator derives from the base: hue as given, the base's
\* saturation and lightness.
withHue(baseHsl, hue) == createColorFromHsl([h |-> hue, s |-> baseHsl.s, l |-> baseHsl.l])

\* generateComplementary without normalizeHue.
generateComplementary_NoWrap(baseColor) ==
    <<baseColor, withHue(baseColor.hsl, baseColor.hsl.h + 180)>>

generateComplementary(baseColor) ==
    <<baseColor, withHue(baseColor.hsl, normalizeHue(baseColor.hsl.h + 180))>>

\* Array.prototype.sort((a, b) => a.hsl.h - b.hsl.h): stable, ascending by hue.
RECURSIVE InsertByHue(_, _)
InsertByHue(sorted, c) ==
    IF sorted = <<>> THEN <<c>>
    ELSE IF c.hsl.h < Head(sorted).hsl.h THEN <<c>> \o sorted
    ELSE <<Head(sorted)>> \o InsertByHue(Tail(sorted), c)

RECURSIVE SortByHue(_)
SortByHue(colors) ==
    IF colors = <<>> THEN <<>>
    ELSE InsertByHue(SortByHue(SubSeq(colors, 1, Len(colors) - 1)), colors[Len(colors)])

\* The colours generateAnalogous pushes after the base: one for each i in
\* 0..count-1 other than floor(count / 2), at angle -30 + i * step.
RECURSIVE AnalogousPushed(_, _, _)
AnalogousPushed(baseHsl, count, i) ==
    LET step == IF count > 1 THEN (angleRange * 2) \div (count - 1) ELSE 0
        angle == (0 - angleRange) + i * step
    IN  IF i >= count THEN <<>>
        ELSE IF i = count \div 2 THEN AnalogousPushed(baseHsl, count, i + 1)
        ELSE <<withHue(baseHsl, normalizeHue(baseHsl.h + angle))>>
                 \o AnalogousPushed(baseHsl, count, i + 1)

\* generateAnalogous without the final sort.
generateAnalogous_Unsorted(baseColor, count) ==
    <<baseColor>> \o AnalogousPushed(baseColor.hsl, count, 0)

generateAnalogous(baseColor, count) ==
    SortByHue(<<baseColor>> \o AnalogousPushed(baseColor.hsl, count, 0))

\* generateTriadic with the third colour a quarter turn short.
generateTriadic_WrongThird(baseColor) ==
    <<baseColor,
      withHue(baseColor.hsl, normalizeHue(baseColor.hsl.h + 120)),
      withHue(baseColor.hsl, normalizeHue(baseColor.hsl.h + 210))>>

generateTriadic(baseColor) ==
    <<baseColor,
      withHue(baseColor.hsl, normalizeHue(baseColor.hsl.h + 120)),
      withHue(baseColor.hsl, normalizeHue(baseColor.hsl.h + 240))>>

generateTetradic(baseColor, angle) ==
    <<baseColor,
      withHue(baseColor.hsl, normalizeHue(baseColor.hsl.h + angle)),
      withHue(baseColor.hsl, normalizeHue(baseColor.hsl.h + 180)),
      withHue(baseColor.hsl, normalizeHue(baseColor.hsl.h + 180 + angle))>>

\* Math.round(minLightness + i * step), step = 70 / (count - 1), count >= 2.
monoLightness(count, i) ==
    Round(minLightness * (count - 1) + i * (maxLightness - minLightness), count - 1, 1)

\* generateMonochromatic with step = 70 / count: the last colour stops short.
generateMonochromatic_StepByCount(baseColor, count) ==
    [k \in 1..count |->
        createColorFromHsl(
            [h |-> baseColor.hsl.h,
             s |-> baseColor.hsl.s,
             l |-> Round(minLightness * count + (k - 1) * (maxLightness - minLightness),
                         count, 1)])]

generateMonochromatic(baseColor, count) ==
    [k \in 1..count |->
        createColorFromHsl(
            [h |-> baseColor.hsl.h, s |-> baseColor.hsl.s, l |-> monoLightness(count, k - 1)])]

\* Math.random().  The k-th call of a run with seed `seed` returns
\* RandomDraw(seed, k) / 360.
RandomDraw(seed, k) == (seed * 211 + k * (2 * seed + 1) * 37) % 360

\* generateRandomColor, drawing with calls k, k + 1 and k + 2.
generateRandomColor(seed, k) ==
    createColorFromHsl(
        [h |-> (RandomDraw(seed, k) * 360) \div 360,
         s |-> 70 + (RandomDraw(seed, k + 1) * 30) \div 360,
         l |-> 40 + (RandomDraw(seed, k + 2) * 30) \div 360])

\* generateRandom(count), the first draw being call k.
generateRandom(count, seed, k) ==
    [j \in 1..count |-> generateRandomColor(seed, k + 3 * (j - 1))]

Schemes == {"complementary", "analogous", "triadic", "tetradic", "monochromatic", "random"}

\* generatePalette; (seed, k) is where Math.random stands when it is called.
generatePalette(baseColor, scheme, count, seed, k) ==
    CASE scheme = "complementary" -> generateComplementary(baseColor)
      [] scheme = "analogous" -> generateAnalogous(baseColor, count)
      [] scheme = "triadic" -> generateTriadic(baseColor)
      [] scheme = "tetradic" -> generateTetradic(baseColor, 30)
      [] scheme = "monochromatic" -> generateMonochromatic(baseColor, count)
      [] scheme = "random" -> generateRandom(count, seed, k)
      [] OTHER -> Err("Unknown color scheme")

(***************************************************************************)
(* Inputs of the conversion layer.                                         *)
(***************************************************************************)
\* Channel values: a grid, both ends of the range and their neighbours.
Channels == {c \in 0..255 : c % ChannelStep = 0} \cup {1, 254, 255}
RgbValid == {[r |-> r, g |-> g, b |-> b] : r \in Channels, g \in Channels, b \in Channels}
\* Triples with a channel outside [0, 255].
RgbOutOfRange ==
    {[r |-> 256, g |-> 0, b |-> 0], [r |-> 0, g |-> -1, b |-> 0], [r |-> 255, g |-> 255, b |-> 300]}
RgbInputs == RgbValid \cup RgbOutOfRange

Hues == {h \in 0..359 : h % HueStep = 0} \cup {217, 359}
Saturations == {s \in 0..100 : s % SatStep = 0} \cup {1, 91, 100}
Lightnesses == {l \in 0..100 : l % LightStep = 0} \cup {1, 60, 100}
HslInputs == {[h |-> h, s |-> s, l |-> l] : h \in Hues, s \in Saturations, l \in Lightnesses}

\* Hex strings: canonical, lower case without '#', shorthand, malformed.
ShortDigits == {"0", "8", "a", "F"}
HexCanonical == {rgbToHex(rgb) : rgb \in RgbValid}
HexLowerBare == {ToHex2(rgb.r) \o ToHex2(rgb.g) \o ToHex2(rgb.b) : rgb \in RgbValid}
HexShorthand ==
    {<<"#", x, y, z>> : x \in ShortDigits, y \in ShortDigits, z \in ShortDigits}
        \cup {<<x, x, "3">> : x \in ShortDigits}
HexMalformed ==
    { <<>>, <<"#">>, <<"#", "1", "2">>, <<"#", "1", "2", "3", "4">>,
      <<"#", "G", "0", "0">>, <<"#", "#", "F", "F", "F">>,
      <<"#", "1", "2", "3", "4", "5", "6", "7">>, <<"F", "F", "0", "0", "0", "z">> }
HexInputs == HexCanonical \cup HexLowerBare \cup HexShorthand \cup HexMalformed

(***************************************************************************)
(* SpecConv: one call of a function of the conversion layer.               *)
(***************************************************************************)
\* getDefaultData(); the metadata (version, lastModified) is left out.
getDefaultData == [favorites |-> <<>>, interactions |-> <<>>]

NoFile == [exists |-> FALSE]
FileOf(db) == [exists |-> TRUE, favorites |-> db.favorites, interactions |-> db.interactions]

\* A manager just constructed on a machine without favorites.json.
StoreFresh ==
    /\ initialized = FALSE
    /\ dbData = getDefaultData
    /\ file = NoFile
    /\ tracked = 0

\* No call of the store is under way.
NoCalls ==
    /\ pc = <<>>
    /\ reads = 0
    /\ seen = <<>>
    /\ pending = <<>>

\* No editor is mounted.
NoEditor ==
    /\ editorPalette = [colors |-> <<>>]
    /\ selectedIndex = 0
    /\ mode = "navigate"
    /\ editValue = <<>>
    /\ closed = "unmounted"

InitCall ==
    /\ op = "init"
    /\ arg = <<>>
    /\ res = <<>>
    /\ fpTieUp \in [1..3 -> BOOLEAN]
    /\ StoreFresh
    /\ NoCalls
    /\ NoEditor

HexToRgb ==
    /\ op = "init"
    /\ \E hex \in HexInputs :
          /\ op' = "hexToRgb"
          /\ arg' = hex
          /\ res' = hexToRgb(hex)
    /\ UNCHANGED <<fpTieUp, storeVars, callerVars, editorVars>>

RgbToHex ==
    /\ op = "init"
    /\ \E rgb \in RgbInputs :
          /\ op' = "rgbToHex"
          /\ arg' = rgb
          /\ res' = rgbToHex(rgb)
    /\ UNCHANGED <<fpTieUp, storeVars, callerVars, editorVars>>

RgbToHsl ==
    /\ op = "init"
    /\ \E rgb \in RgbValid :
          /\ op' = "rgbToHsl"
          /\ arg' = rgb
          /\ res' = rgbToHsl(rgb)
    /\ UNCHANGED <<fpTieUp, storeVars, callerVars, editorVars>>

HslToRgb ==
    /\ op = "init"
    /\ \E hsl \in HslInputs :
          /\ op' = "hslToRgb"
          /\ arg' = hsl
          /\ res' = hslToRgb(hsl)
    /\ UNCHANGED <<fpTieUp, storeVars, callerVars, editorVars>>

CreateColorFromHex ==
    /\ op = "init"
    /\ \E hex \in HexInputs :
          /\ op' = "createColorFromHex"
          /\ arg' = hex
          /\ res' = createColorFromHex(hex)
    /\ UNCHANGED <<fpTieUp, storeVars, callerVars, editorVars>>

CreateColorFromRgb ==
    /\ op = "init"
    /\ \E rgb \in RgbInputs :
          /\ op' = "createColorFromRgb"
          /\ arg' = rgb
          /\ res' = createColorFromRgb(rgb)
    /\ UNCHANGED <<fpTieUp, storeVars, callerVars, editorVars>>

CreateColorFromHsl ==
    /\ op = "init"
    /\ \E hsl \in HslInputs :
          /\ op' = "createColorFromHsl"
          /\ arg' = hsl
          /\ res' = createColorFromHsl(hsl)
    /\ UNCHANGED <<fpTieUp, storeVars, callerVars, editorVars>>

NextConv ==
    \/ HexToRgb
    \/ RgbToHex
    \/ RgbToHsl
    \/ HslToRgb
    \/ CreateColorFromHex
    \/ CreateColorFromRgb
    \/ CreateColorFromHsl

SpecConv == InitCall /\ [][NextConv]_vars

(***************************************************************************)
(* SpecTheory: one call of a generator on a base colour.                   *)
(***************************************************************************)
MaxAnalogousCount == 7
MaxMonoCount == 6
MaxSeed == 2

BaseHsl == {[h |-> h, s |-> s, l |-> l] : h \in Hues, s \in {0, 35, 100}, l \in {5, 50, 95}}
\* (255, 0, 1) is a colour whose rgbToHsl hue rounds to 360.
BaseRgb ==
    {[r |-> 255, g |-> 0, b |-> 1], [r |-> 59, g |-> 130, b |-> 246],
     [r |-> 128, g |-> 128, b |-> 128]}
BaseColors ==
    {createColorFromHsl(x) : x \in BaseHsl} \cup {createColorFromRgb(x) : x \in BaseRgb}

\* Counts with a whole-degree step, 60 / (count - 1).
AnalogousCounts == {c \in 1..MaxAnalogousCount : c = 1 \/ (2 * angleRange) % (c - 1) = 0}
\* Small counts, and the two around the number of whole lightness values
\* between minLightness and maxLightness.
MonoLimit == maxLightness - minLightness + 1
MonoCounts == (2..MaxMonoCount) \cup {MonoLimit, MonoLimit + 1}
Seeds == 1..MaxSeed

GenerateComplementary ==
    /\ op = "init"
    /\ \E base \in BaseColors :
          /\ op' = "generateComplementary"
          /\ arg' = [base |-> base]
          /\ res' = generateComplementary(base)
    /\ UNCHANGED <<fpTieUp, storeVars, callerVars, editorVars>>

GenerateAnalogous ==
    /\ op = "init"
    /\ \E base \in BaseColors, count \in AnalogousCounts :
          /\ op' = "generateAnalogous"
          /\ arg' = [base |-> base, count |-> count]
          /\ res' = generateAnalogous(base, count)
    /\ UNCHANGED <<fpTieUp, storeVars, callerVars, editorVars>>

GenerateTriadic ==
    /\ op = "init"
    /\ \E base \in BaseColors :
          /\ op' = "generateTriadic"
          /\ arg' = [base |-> base]
          /\ res' = generateTriadic(base)
    /\ UNCHANGED <<fpTieUp, storeVars, callerVars, editorVars>>

GenerateTetradic ==
    /\ op = "init"
    /\ \E base \in BaseColors, angle \in {30, 60, 90} :
          /\ op' = "generateTetradic"
          /\ arg' = [base |-> base, angle |-> angle]
          /\ res' = generateTetradic(base, angle)
    /\ UNCHANGED <<fpTieUp, storeVars, callerVars, editorVars>>

GenerateMonochromatic ==
    /\ op = "init"
    /\ \E base \in BaseColors, count \in MonoCounts :
          /\ op' = "generateMonochromatic"
          /\ arg' = [base |-> base, count |-> count]
          /\ res' = generateMonochromatic(base, count)
    /\ UNCHANGED <<fpTieUp, storeVars, callerVars, editorVars>>

GenerateRandom ==
    /\ op = "init"
    /\ \E count \in 1..MaxMonoCount, seed \in Seeds :
          /\ op' = "generateRandom"
          /\ arg' = [count |-> count, seed |-> seed]
          /\ res' = generateRandom(count, seed, 0)
    /\ UNCHANGED <<fpTieUp, storeVars, callerVars, editorVars>>

GeneratePalette ==
    /\ op = "init"
    /\ \E base \in BaseColors, scheme \in Schemes \cup {"pastel"} :
       \E seed \in IF scheme = "random" THEN Seeds ELSE {1} :
          /\ op' = "generatePalette"
          /\ arg' = [base |-> base, scheme |-> scheme, count |-> 5, seed |-> seed]
          /\ res' = generatePalette(base, scheme, 5, seed, 0)
    /\ UNCHANGED <<fpTieUp, storeVars, callerVars, editorVars>>

NextTheory ==
    \/ GenerateComplementary
    \/ GenerateAnalogous
    \/ GenerateTriadic
    \/ GenerateTetradic
    \/ GenerateMonochromatic
    \/ GenerateRandom
    \/ GeneratePalette

SpecTheory == InitCall /\ [][NextTheory]_vars

(***************************************************************************)
(* Claims about the conversion layer (checked under SpecConv).             *)
(***************************************************************************)
IsValidHex(hex) ==
    LET body == IF Len(hex) > 0 /\ hex[1] = "#" THEN Tail(hex) ELSE hex
    IN  Len(body) \in {3, 6} /\ \A i \in 1..Len(body) : IsHexDigit(body[i])
IsValidRgb(rgb) == rgb.r \in 0..255 /\ rgb.g \in 0..255 /\ rgb.b \in 0..255
IsCanonicalHex(hex) ==
    /\ Len(hex) = 7
    /\ hex[1] = "#"
    /\ \A i \in 2..7 : \E k \in 1..16 : hex[i] = UpperHexDigits[k]
WithinOne(x, y) ==
    Abs(x.h - y.h) <= 1 /\ Abs(x.s - y.s) <= 1 /\ Abs(x.l - y.l) <= 1

\* C1 as stated: every Color a constructor returns for a valid input has
\* hex = rgbToHex(rgb) and hsl = rgbToHsl(rgb).
C1_AllRepresentationsDerivedFromRgb ==
    (/\ op \in {"createColorFromHex", "createColorFromRgb", "createColorFromHsl"}
     /\ ~IsErr(res))
        => (res.hex = rgbToHex(res.rgb) /\ res.hsl = rgbToHsl(res.rgb))

\* C1 as amended: every Color a constructor returns for a valid input has
\* hex = rgbToHex(rgb); from a hex string or an RGB triple its hsl is
\* rgbToHsl(rgb); from an HSL triple its hsl is the input itself and its rgb is
\* hslToRgb(hsl).
C1_ConstructorsConsistent ==
    /\ (op = "createColorFromHex" /\ IsValidHex(arg))
          => /\ ~IsErr(res)
             /\ res.rgb = hexToRgb(arg)
             /\ res.hex = rgbToHex(res.rgb)
             /\ res.hsl = rgbToHsl(res.rgb)
    /\ (op = "createColorFromRgb" /\ IsValidRgb(arg))
          => /\ ~IsErr(res)
             /\ res.rgb = arg
             /\ res.hex = rgbToHex(res.rgb)
             /\ res.hsl = rgbToHsl(res.rgb)
    /\ op = "createColorFromHsl"
          => /\ ~IsErr(res)
             /\ res.hsl = arg
             /\ res.rgb = hslToRgb(arg)
             /\ res.hex = rgbToHex(res.rgb)

\* A Color built from an HSL triple that rgbToHsl does not give back, and one
\* built from a shorthand hex string.
C1_Witness ==
    \/ (op = "createColorFromHsl" /\ ~IsErr(res) /\ rgbToHsl(res.rgb) # res.hsl)
    \/ (op = "createColorFromHex" /\ ~IsErr(res) /\ Len(arg) = 4 /\ Len(res.hex) = 7)

\* C2: for every RGB triple of integers in [0, 255], hexToRgb(rgbToHex(rgb))
\* is that triple, and rgbToHex yields '#' and six upper-case hex digits.
C2_HexRoundTrip ==
    (op = "rgbToHex" /\ IsValidRgb(arg))
        => (~IsErr(res) /\ IsCanonicalHex(res) /\ hexToRgb(res) = arg)

\* rgbToHex of a triple that needs a padded pair and a letter digit.
C2_Witness ==
    /\ op = "rgbToHex"
    /\ arg.r \in 1..15
    /\ arg.g > 160
    /\ IsCanonicalHex(res)

\* C3 as stated: for every HSL triple (h in [0, 360), s and l in [0, 100])
\* rgbToHsl(hslToRgb(hsl)) is within 1 unit of it in each of h, s and l.
C3_RoundTripWithinOneEverywhere ==
    op = "hslToRgb" => WithinOne(rgbToHsl(res), arg)

\* C3 as amended: rgbToHsl(hslToRgb(hsl)) has the lightness of hsl for every
\* such triple, and is within 1 unit of it in h and s as well when
\* s >= 50 and 25 <= l <= 75.
C3_RoundTripWithinOneWhenSaturated ==
    op = "hslToRgb"
        => /\ rgbToHsl(res).l = arg.l
           /\ (arg.s >= 50 /\ arg.l >= 25 /\ arg.l <= 75) => WithinOne(rgbToHsl(res), arg)

\* A saturated mid-lightness triple that the round trip changes, by 1 unit.
C3_Witness ==
    /\ op = "hslToRgb"
    /\ arg.s >= 50 /\ arg.l >= 25 /\ arg.l <= 75
    /\ rgbToHsl(res) # arg

(***************************************************************************)
(* Claims about the generators (checked under SpecTheory).                 *)
(***************************************************************************)
CircularDistance(x, y) ==
    LET d == Abs(x - y) % 360
    IN  Min2(d, 360 - d)
KeepsSaturationAndLightness(colors, base) ==
    \A i \in 1..Len(colors) :
        colors[i].hsl.s = base.hsl.s /\ colors[i].hsl.l = base.hsl.l
LightnessStrictlyIncreasing(colors) ==
    \A i \in 1..(Len(colors) - 1) : colors[i].hsl.l < colors[i + 1].hsl.l
LightnessNonDecreasing(colors) ==
    \A i \in 1..(Len(colors) - 1) : colors[i].hsl.l <= colors[i + 1].hsl.l

\* C4: generateComplementary(base) is exactly [base, c], where c has hue
\* (h + 180) mod 360 and the base's saturation and lightness.
C4_Complementary ==
    op = "generateComplementary"
        => /\ Len(res) = 2
           /\ res[1] = arg.base
           /\ res[2].hsl.h = (arg.base.hsl.h + 180) % 360
           /\ res[2].hsl.s = arg.base.hsl.s
           /\ res[2].hsl.l = arg.base.hsl.l

\* A base in the second half of the wheel: the complement wraps past 360.
C4_Witness ==
    /\ op = "generateComplementary"
    /\ arg.base.hsl.h >= 180
    /\ res[2].hsl.h < 180

\* C5: generateAnalogous(base, 5) is 5 colours, ascending by hue, every hue
\* within 30 degrees (around the wheel) of the base hue, all with the base's
\* saturation and lightness, the base itself among them exactly once.
C5_AnalogousFive ==
    (op = "generateAnalogous" /\ arg.count = 5)
        => /\ Len(res) = 5
           /\ \A i \in 1..4 : res[i].hsl.h <= res[i + 1].hsl.h
           /\ \A i \in 1..5 : CircularDistance(res[i].hsl.h, arg.base.hsl.h) <= 30
           /\ KeepsSaturationAndLightness(res, arg.base)
           /\ Cardinality({i \in 1..5 : res[i] = arg.base}) = 1

\* Five analogous colours of a base near 0: the window wraps, and the sort
\* puts the colours below 360 last.
C5_Witness ==
    /\ op = "generateAnalogous"
    /\ arg.count = 5
    /\ arg.base.hsl.h < 30
    /\ res[5].hsl.h > 300

\* C6: generateTriadic(base) is 3 colours, the first the base itself, with
\* hues exactly {h, (h + 120) mod 360, (h + 240) mod 360} and the base's
\* saturation and lightness.
C6_Triadic ==
    op = "generateTriadic"
        => /\ Len(res) = 3
           /\ res[1] = arg.base
           /\ {res[i].hsl.h : i \in 1..3}
                  = {arg.base.hsl.h,
                     (arg.base.hsl.h + 120) % 360,
                     (arg.base.hsl.h + 240) % 360}
           /\ KeepsSaturationAndLightness(res, arg.base)

\* A base past 240: both rotations wrap.
C6_Witness ==
    /\ op = "generateTriadic"
    /\ arg.base.hsl.h > 240
    /\ res[2].hsl.h < 120
    /\ res[3].hsl.h < 240

\* C7 as stated: for every n >= 2, generateMonochromatic(base, n) is n
\* colours with the base's hue and saturation whose lightness is strictly
\* increasing, from 15 to 85.
C7_MonochromaticStrictForAllCounts ==
    op = "generateMonochromatic"
        => /\ Len(res) = arg.count
           /\ \A i \in 1..Len(res) :
                 res[i].hsl.h = arg.base.hsl.h /\ res[i].hsl.s = arg.base.hsl.s
           /\ res[1].hsl.l = minLightness
           /\ res[Len(res)].hsl.l = maxLightness
           /\ LightnessStrictlyIncreasing(res)

\* C7 as amended: for every n >= 2 it is n colours with the base's hue and
\* saturation whose lightness never decreases, from 15 to 85; the lightness
\* is strictly increasing when n <= 71 and repeats a value when n >= 72.
C7_MonochromaticStrictUpTo71 ==
    op = "generateMonochromatic"
        => /\ Len(res) = arg.count
           /\ \A i \in 1..Len(res) :
                 res[i].hsl.h = arg.base.hsl.h /\ res[i].hsl.s = arg.base.hsl.s
           /\ res[1].hsl.l = minLightness
           /\ res[Len(res)].hsl.l = maxLightness
           /\ LightnessNonDecreasing(res)
           /\ LightnessStrictlyIncreasing(res) <=> arg.count <= MonoLimit

\* The largest palette with strictly increasing lightness.
C7_Witness ==
    /\ op = "generateMonochromatic"
    /\ arg.count = MonoLimit
    /\ res[MonoLimit].hsl.l = maxLightness
    /\ LightnessStrictlyIncreasing(res)

(***************************************************************************)
(* The suggestion engine (core/suggestions).  Palette ids come from        *)
(* nanoid; the model numbers them by the rank they are made for.  Creation *)
(* timestamps are left out of the records.                                 *)
(***************************************************************************)
DrawsPerPalette == 15

\* adjustSaturation: clamp to [0, 100]
adjustSaturation(color, delta) ==
    LET newS == Max2(0, Min2(100, color.hsl.s + delta))
    IN  createColorFromHsl([h |-> color.hsl.h, s |-> newS, l |-> color.hsl.l])

\* adjustHue: one wrap in each direction
adjustHue(color, delta) ==
    LET shifted == color.hsl.h + delta
        raised == IF shifted < 0 THEN shifted + 360 ELSE shifted
        newH == IF raised >= 360 THEN raised - 360 ELSE raised
    IN  createColorFromHsl([h |-> newH, s |-> color.hsl.s, l |-> color.hsl.l])

\* adjustLightness moving the lightness the other way.
adjustLightness_WrongSign(color, delta) ==
    LET newL == Max2(10, Min2(90, color.hsl.l - delta))
    IN  createColorFromHsl([h |-> color.hsl.h, s |-> color.hsl.s, l |-> newL])

\* adjustLightness: clamp to [10, 90]
adjustLightness(color, delta) ==
    LET newL == Max2(10, Min2(90, color.hsl.l + delta))
    IN  createColorFromHsl([h |-> color.hsl.h, s |-> color.hsl.s, l |-> newL])

\* getAlternativeScheme returning the scheme it was given.
getAlternativeScheme_Identity(scheme) ==
    CASE scheme = "complementary" -> "complementary"
      [] scheme = "analogous" -> "analogous"
      [] scheme = "triadic" -> "triadic"
      [] scheme = "tetradic" -> "tetradic"
      [] scheme = "monochromatic" -> "monochromatic"
      [] scheme = "random" -> "random"
      [] OTHER -> "analogous"

getAlternativeScheme(scheme) ==
    CASE scheme = "complementary" -> "triadic"
      [] scheme = "analogous" -> "complementary"
      [] scheme = "triadic" -> "analogous"
      [] scheme = "tetradic" -> "complementary"
      [] scheme = "monochromatic" -> "analogous"
      [] scheme = "random" -> "analogous"
      [] OTHER -> "analogous"

\* createPalette(baseColor, scheme), made for the suggestion of rank `rank`:
\* generatePalette with its default count of 5.
createPalette(baseColor, scheme, rank, seed) ==
    LET colors == generatePalette(baseColor, scheme, 5, seed,
                                  1 + DrawsPerPalette * (rank - 1))
    IN  IF IsErr(colors) THEN colors
        ELSE [id |-> rank, colors |-> colors, scheme |-> scheme,
              metadata |-> [generationMethod |-> "scheme"]]

\* The original of a suggestion built on a shifted color instead of the base.
suggestionColor_ShiftedOriginal(baseColor, scheme, rank) ==
    CASE rank = 1 -> adjustHue(baseColor, 15)
      [] OTHER -> baseColor

\* The color the palette of rank `rank` is generated from.
suggestionColor(baseColor, scheme, rank) ==
    CASE rank = 1 -> baseColor
      [] rank = 2 -> adjustSaturation(baseColor, 15)
      [] rank = 3 -> adjustSaturation(baseColor, 0 - 15)
      [] rank = 4 -> adjustHue(baseColor, 0 - 15)
      [] rank = 5 -> adjustHue(baseColor, 15)
      [] rank = 6 -> adjustLightness(baseColor, 10)
      [] rank = 7 -> adjustLightness(baseColor, 0 - 10)
      [] rank = 8 -> IF scheme # "random" THEN baseColor ELSE adjustHue(baseColor, 30)
      [] rank = 9 -> adjustHue(adjustSaturation(baseColor, 10), 0 - 10)
      [] rank = 10 -> adjustHue(adjustSaturation(baseColor, 0 - 10), 10)

\* The scheme the palette of rank `rank` is generated with.
suggestionScheme(scheme, rank) ==
    IF rank = 8 /\ scheme # "random" THEN getAlternativeScheme(scheme) ELSE scheme

suggestionDescription(scheme, rank) ==
    CASE rank = 1 -> "Original " \o scheme \o " palette"
      [] rank = 2 -> "Vibrant " \o scheme \o " (higher saturation)"
      [] rank = 3 -> "Muted " \o scheme \o " (softer tones)"
      [] rank = 4 -> "Warm " \o scheme \o " (warmer hues)"
      [] rank = 5 -> "Cool " \o scheme \o " (cooler hues)"
      [] rank = 6 -> "Light " \o scheme \o " (brighter tones)"
      [] rank = 7 -> "Dark " \o scheme \o " (deeper tones)"
      [] rank = 8 -> IF scheme # "random"
                     THEN "Alternative " \o getAlternativeScheme(scheme) \o " scheme"
                     ELSE "Shifted random palette"
      [] rank = 9 -> "Warm vibrant " \o scheme \o " (hybrid)"
      [] rank = 10 -> "Cool muted " \o scheme \o " (hybrid)"

suggestionStrategy(scheme, rank) ==
    CASE rank \in {1, 4, 5} -> "hue-shift"
      [] rank \in {2, 3} -> "saturation-variation"
      [] rank \in {6, 7} -> "lightness-variation"
      [] rank = 8 -> IF scheme # "random" THEN "scheme-alternative" ELSE "hue-shift"
      [] rank \in {9, 10} -> "hybrid"

\* The suggestion pushed for rank `rank`.
suggestion(baseColor, scheme, rank, seed) ==
    [palette |-> createPalette(suggestionColor(baseColor, scheme, rank),
                               suggestionScheme(scheme, rank), rank, seed),
     description |-> suggestionDescription(scheme, rank),
     strategy |-> suggestionStrategy(scheme, rank),
     rank |-> rank]

\* generateSuggestions without the upper limit on count.
generateSuggestions_NoUpperLimit(baseColor, scheme, count, seed) ==
    IF count < 1
    THEN Err("Suggestion count must be between 1 and 10")
    ELSE LET pushed == [r \in 1..Min2(count, 10) |-> suggestion(baseColor, scheme, r, seed)]
         IN  [suggestions |-> SubSeq(pushed, 1, Min2(count, Len(pushed))),
              baseColor |-> baseColor,
              requestedScheme |-> scheme]

\* generateSuggestions: rank r is pushed when count >= r; the result is the
\* first `count` of the pushed suggestions.
generateSuggestions(baseColor, scheme, count, seed) ==
    IF count < 1 \/ count > 10
    THEN Err("Suggestion count must be between 1 and 10")
    ELSE LET pushed == [r \in 1..Min2(count, 10) |-> suggestion(baseColor, scheme, r, seed)]
         IN  [suggestions |-> SubSeq(pushed, 1, Min2(count, Len(pushed))),
              baseColor |-> baseColor,
              requestedScheme |-> scheme]

(***************************************************************************)
(* One call of the suggestion engine.                                      *)
(***************************************************************************)
MaxSuggestionCount == 11

SuggestionBaseHsl ==
    {[h |-> h, s |-> s, l |-> l] : h \in {0, 5, 120, 217, 350}, s \in {0, 50, 95}, l \in {5, 50, 95}}
SuggestionBases ==
    {createColorFromHsl(hsl) : hsl \in SuggestionBaseHsl}
        \cup {createColorFromRgb(rgb) : rgb \in BaseRgb}
SuggestionCounts == (0 - 1)..MaxSuggestionCount

GenerateSuggestions ==
    /\ op = "init"
    /\ \E base \in SuggestionBases, scheme \in Schemes, count \in SuggestionCounts :
       \E seed \in IF scheme = "random" THEN Seeds ELSE {1} :
          /\ op' = "generateSuggestions"
          /\ arg' = [base |-> base, scheme |-> scheme, count |-> count, seed |-> seed]
          /\ res' = generateSuggestions(base, scheme, count, seed)
    /\ UNCHANGED <<fpTieUp, storeVars, callerVars, editorVars>>

NextSugg ==
    \/ GenerateSuggestions

SpecSugg == InitCall /\ [][NextSugg]_vars

(***************************************************************************)
(* Claims about the suggestion engine (checked under SpecSugg).            *)
(***************************************************************************)
\* C8: generateSuggestions fails with the invalid-count error for every
\* count < 1 or count > 10 and returns no suggestion set; for count in 1..10
\* it returns exactly count suggestions whose ranks in order are 1..count,
\* the first described as the original.
C8_CountChecked ==
    op = "generateSuggestions"
        => IF arg.count < 1 \/ arg.count > 10
           THEN res = Err("Suggestion count must be between 1 and 10")
           ELSE /\ ~IsErr(res)
                /\ Len(res.suggestions) = arg.count
                /\ \A r \in 1..arg.count : res.suggestions[r].rank = r
                /\ res.suggestions[1].description
                       = "Original " \o arg.scheme \o " palette"

\* Both the largest accepted count and the smallest rejected one.
C8_Witness ==
    /\ op = "generateSuggestions"
    /\ \/ arg.count = 10 /\ ~IsErr(res) /\ res.suggestions[10].rank = 10
       \/ arg.count = 11 /\ IsErr(res)

\* C9: for a deterministic scheme and a valid count, the palette of rank 1
\* has the requested scheme and the colors of generatePalette(base, scheme).
C9_OriginalFromBase ==
    (/\ op = "generateSuggestions"
     /\ arg.scheme # "random"
     /\ arg.count \in 1..10)
        => /\ res.suggestions[1].palette.scheme = arg.scheme
           /\ res.suggestions[1].palette.colors
                  = generatePalette(arg.base, arg.scheme, 5, arg.seed, 1)

\* An analogous request for several suggestions: the original's colors are
\* the base's own, and differ from those of the shifted ranks.
C9_Witness ==
    /\ op = "generateSuggestions"
    /\ arg.scheme = "analogous"
    /\ arg.count = 5
    /\ res.suggestions[1].palette.colors = generateAnalogous(arg.base, 5)
    /\ res.suggestions[5].palette.colors # res.suggestions[1].palette.colors

(***************************************************************************)
(* Preference learning (learning/interactions).  A fraction is a record    *)
(* [n, d] in lowest terms with d > 0; the code's doubles are modelled by   *)
(* exact fractions, and the final Math.round of a score by Round at site   *)
(* 1.  An interaction is [type, scheme, colors, tags]; its id, timestamp   *)
(* and palette id are never read by this module and are left out.          *)
(***************************************************************************)
RECURSIVE GCD(_, _)
GCD(x, y) == IF y = 0 THEN x ELSE GCD(y, x % y)

Frac(n, d) ==
    LET g == GCD(Abs(n), d)
    IN  [n |-> n \div g, d |-> d \div g]
FracOfInt(i) == [n |-> i, d |-> 1]
FracAdd(x, y) == Frac(x.n * y.d + y.n * x.d, x.d * y.d)
FracSub(x, y) == Frac(x.n * y.d - y.n * x.d, x.d * y.d)
FracMul(x, y) == Frac(x.n * y.n, x.d * y.d)
FracAbs(x) == [n |-> Abs(x.n), d |-> x.d]
FracLess(x, y) == x.n * y.d < y.n * x.d
FracMax(x, y) == IF FracLess(x, y) THEN y ELSE x
FracMin(x, y) == IF FracLess(y, x) THEN y ELSE x

RECURSIVE SumSeq(_)
SumSeq(q) == IF q = <<>> THEN 0 ELSE q[1] + SumSeq(Tail(q))

RECURSIVE SumValues(_)
SumValues(f) ==
    IF DOMAIN f = {} THEN 0
    ELSE LET key == CHOOSE x \in DOMAIN f : TRUE
         IN  f[key] + SumValues([x \in DOMAIN f \ {key} |-> f[x]])

\* The colors of the save and edit interactions, in order.
RECURSIVE SavedOrEditedColors(_)
SavedOrEditedColors(interactions) ==
    IF interactions = <<>> THEN <<>>
    ELSE (IF interactions[1].type \in {"save", "edit"}
          THEN interactions[1].colors ELSE <<>>)
             \o SavedOrEditedColors(Tail(interactions))

DefaultColorPreferences ==
    [huePreferences |-> <<>>,
     saturationPreference |-> Frac(7, 10),
     lightnessPreference |-> Frac(5, 10)]

analyzeColorPreferences(interactions) ==
    IF Len(interactions) = 0 THEN DefaultColorPreferences
    ELSE LET allColors == SavedOrEditedColors(interactions)
             count == Len(allColors)
         IN  IF count = 0 THEN DefaultColorPreferences
             ELSE [huePreferences |-> [i \in 1..count |-> allColors[i].hsl.h],
                   saturationPreference |->
                       Frac(SumSeq([i \in 1..count |-> allColors[i].hsl.s]), count),
                   lightnessPreference |->
                       Frac(SumSeq([i \in 1..count |-> allColors[i].hsl.l]), count)]

\* analyzeSchemePreferences counting only the first interaction.
analyzeSchemePreferences_FirstOnly(interactions) ==
    LET counted == {i \in 1..Len(interactions) :
                       i = 1 /\ interactions[i].type \in {"save", "generate"}}
    IN  [scheme \in {interactions[i].scheme : i \in counted} |->
            Cardinality({i \in counted : interactions[i].scheme = scheme})]

analyzeSchemePreferences(interactions) ==
    LET counted == {i \in 1..Len(interactions) :
                       interactions[i].type \in {"save", "generate"}}
    IN  [scheme \in {interactions[i].scheme : i \in counted} |->
            Cardinality({i \in counted : interactions[i].scheme = scheme})]

\* paletteHues.filter(h => huePreferences.some(ph => Math.abs(h - ph) < 30)):
\* the positions of the palette colors that pass the filter.
matchingHueIndices(palette, huePreferences) ==
    {i \in 1..Len(palette.colors) :
        \E j \in 1..Len(huePreferences) :
            Abs(palette.colors[i].hsl.h - huePreferences[j]) < 30}

\* calculatePreferenceScore starting from a base score of 40.
calculatePreferenceScore_BaseScore40(palette, preferences) ==
    LET schemeCount == IF palette.scheme \in DOMAIN preferences.favoriteSchemes
                       THEN preferences.favoriteSchemes[palette.scheme] ELSE 0
        totalSchemeInteractions == SumValues(preferences.favoriteSchemes)
        withScheme ==
            IF totalSchemeInteractions > 0
            THEN FracAdd(FracOfInt(40),
                         FracMul(Frac(schemeCount, totalSchemeInteractions), FracOfInt(20)))
            ELSE FracOfInt(40)
        colorPrefs == analyzeColorPreferences(preferences.recentActivity)
        huePreferences == colorPrefs.huePreferences
        count == Len(palette.colors)
        hueMatches == Cardinality(matchingHueIndices(palette, huePreferences))
        avgPaletteSaturation ==
            Frac(SumSeq([i \in 1..count |-> palette.colors[i].hsl.s]), count)
        saturationDiff ==
            FracAbs(FracSub(avgPaletteSaturation, colorPrefs.saturationPreference))
        avgPaletteLightness ==
            Frac(SumSeq([i \in 1..count |-> palette.colors[i].hsl.l]), count)
        lightnessDiff ==
            FracAbs(FracSub(avgPaletteLightness, colorPrefs.lightnessPreference))
        withColors ==
            FracAdd(FracAdd(FracAdd(withScheme,
                                    FracMul(Frac(hueMatches, count), FracOfInt(15))),
                            FracMul(FracSub(FracOfInt(1), saturationDiff), Frac(15, 2))),
                    FracMul(FracSub(FracOfInt(1), lightnessDiff), Frac(15, 2)))
    IN  IF Len(huePreferences) > 0
        THEN IF count = 0 THEN "NaN"
             ELSE LET clamped == FracMax(FracOfInt(0), FracMin(FracOfInt(100), withColors))
                  IN  Round(clamped.n, clamped.d, 1)
        ELSE LET clamped == FracMax(FracOfInt(0), FracMin(FracOfInt(100), withScheme))
             IN  Round(clamped.n, clamped.d, 1)

\* calculatePreferenceScore without the clamp to [0, 100].
calculatePreferenceScore_NoClamp(palette, preferences) ==
    LET schemeCount == IF palette.scheme \in DOMAIN preferences.favoriteSchemes
                       THEN preferences.favoriteSchemes[palette.scheme] ELSE 0
        totalSchemeInteractions == SumValues(preferences.favoriteSchemes)
        withScheme ==
            IF totalSchemeInteractions > 0
            THEN FracAdd(FracOfInt(50),
                         FracMul(Frac(schemeCount, totalSchemeInteractions), FracOfInt(20)))
            ELSE FracOfInt(50)
        colorPrefs == analyzeColorPreferences(preferences.recentActivity)
        huePreferences == colorPrefs.huePreferences
        count == Len(palette.colors)
        hueMatches == Cardinality(matchingHueIndices(palette, huePreferences))
        avgPaletteSaturation ==
            Frac(SumSeq([i \in 1..count |-> palette.colors[i].hsl.s]), count)
        saturationDiff ==
            FracAbs(FracSub(avgPaletteSaturation, colorPrefs.saturationPreference))
        avgPaletteLightness ==
            Frac(SumSeq([i \in 1..count |-> palette.colors[i].hsl.l]), count)
        lightnessDiff ==
            FracAbs(FracSub(avgPaletteLightness, colorPrefs.lightnessPreference))
        withColors ==
            FracAdd(FracAdd(FracAdd(withScheme,
                                    FracMul(Frac(hueMatches, count), FracOfInt(15))),
                            FracMul(FracSub(FracOfInt(1), saturationDiff), Frac(15, 2))),
                    FracMul(FracSub(FracOfInt(1), lightnessDiff), Frac(15, 2)))
    IN  IF Len(huePreferences) > 0
        THEN IF count = 0 THEN "NaN"
             ELSE LET clamped == withColors
                  IN  Round(clamped.n, clamped.d, 1)
        ELSE LET clamped == withScheme
             IN  Round(clamped.n, clamped.d, 1)

\* calculatePreferenceScore; with hue preferences and an empty palette the
\* averages are 0 / 0 and the result is NaN.
calculatePreferenceScore(palette, preferences) ==
    LET schemeCount == IF palette.scheme \in DOMAIN preferences.favoriteSchemes
                       THEN preferences.favoriteSchemes[palette.scheme] ELSE 0
        totalSchemeInteractions == SumValues(preferences.favoriteSchemes)
        withScheme ==
            IF totalSchemeInteractions > 0
            THEN FracAdd(FracOfInt(50),
                         FracMul(Frac(schemeCount, totalSchemeInteractions), FracOfInt(20)))
            ELSE FracOfInt(50)
        colorPrefs == analyzeColorPreferences(preferences.recentActivity)
        huePreferences == colorPrefs.huePreferences
        count == Len(palette.colors)
        hueMatches == Cardinality(matchingHueIndices(palette, huePreferences))
        avgPaletteSaturation ==
            Frac(SumSeq([i \in 1..count |-> palette.colors[i].hsl.s]), count)
        saturationDiff ==
            FracAbs(FracSub(avgPaletteSaturation, colorPrefs.saturationPreference))
        avgPaletteLightness ==
            Frac(SumSeq([i \in 1..count |-> palette.colors[i].hsl.l]), count)
        lightnessDiff ==
            FracAbs(FracSub(avgPaletteLightness, colorPrefs.lightnessPreference))
        withColors ==
            FracAdd(FracAdd(FracAdd(withScheme,
                                    FracMul(Frac(hueMatches, count), FracOfInt(15))),
                            FracMul(FracSub(FracOfInt(1), saturationDiff), Frac(15, 2))),
                    FracMul(FracSub(FracOfInt(1), lightnessDiff), Frac(15, 2)))
    IN  IF Len(huePreferences) > 0
        THEN IF count = 0 THEN "NaN"
             ELSE LET clamped == FracMax(FracOfInt(0), FracMin(FracOfInt(100), withColors))
                  IN  Round(clamped.n, clamped.d, 1)
        ELSE LET clamped == FracMax(FracOfInt(0), FracMin(FracOfInt(100), withScheme))
             IN  Round(clamped.n, clamped.d, 1)

hueRanges ==
    <<[min |-> 0, max |-> 30, name |-> "red-orange"],
      [min |-> 30, max |-> 60, name |-> "yellow"],
      [min |-> 60, max |-> 120, name |-> "green"],
      [min |-> 120, max |-> 180, name |-> "cyan"],
      [min |-> 180, max |-> 240, name |-> "blue"],
      [min |-> 240, max |-> 300, name |-> "purple"],
      [min |-> 300, max |-> 360, name |-> "magenta"]>>

\* hueRanges.find(r => hue >= r.min && hue < r.max): its index, 0 if none.
FindHueRange(hue) ==
    LET hits == {j \in 1..Len(hueRanges) : hue >= hueRanges[j].min /\ hue < hueRanges[j].max}
    IN  IF hits = {} THEN 0 ELSE CHOOSE j \in hits : \A k \in hits : j <= k

RECURSIVE FilterCounted(_)
FilterCounted(ranges) ==
    IF ranges = <<>> THEN <<>>
    ELSE (IF ranges[1].count > 0 THEN <<ranges[1]>> ELSE <<>>)
             \o FilterCounted(Tail(ranges))

RECURSIVE AllTags(_)
AllTags(interactions) ==
    IF interactions = <<>> THEN <<>>
    ELSE interactions[1].tags \o AllTags(Tail(interactions))

\* buildUserPreferences keeping the first 20 interactions as recent activity.
buildUserPreferences_First20(interactions) ==
    LET schemePreferences == analyzeSchemePreferences(interactions)
        colorPrefs == analyzeColorPreferences(interactions)
        tags == AllTags(interactions)
        tagCounts == [tag \in {tags[i] : i \in 1..Len(tags)} |->
                         Cardinality({i \in 1..Len(tags) : tags[i] = tag})]
        hues == colorPrefs.huePreferences
        counted == [j \in 1..Len(hueRanges) |->
                       [min |-> hueRanges[j].min, max |-> hueRanges[j].max,
                        count |-> Cardinality({i \in 1..Len(hues) : FindHueRange(hues[i]) = j}),
                        name |-> hueRanges[j].name]]
    IN  [totalInteractions |-> Len(interactions),
         favoriteSchemes |-> schemePreferences,
         favoriteHueRanges |-> FilterCounted(counted),
         favoriteSaturationRange |->
             [min |-> FracMax(FracOfInt(0), FracSub(colorPrefs.saturationPreference, Frac(2, 10))),
              max |-> FracMin(FracOfInt(1), FracAdd(colorPrefs.saturationPreference, Frac(2, 10)))],
         favoriteLightnessRange |->
             [min |-> FracMax(FracOfInt(0), FracSub(colorPrefs.lightnessPreference, Frac(2, 10))),
              max |-> FracMin(FracOfInt(1), FracAdd(colorPrefs.lightnessPreference, Frac(2, 10)))],
         commonTags |-> tagCounts,
         recentActivity |-> SubSeq(interactions, 1, Min2(20, Len(interactions)))]

buildUserPreferences(interactions) ==
    LET schemePreferences == analyzeSchemePreferences(interactions)
        colorPrefs == analyzeColorPreferences(interactions)
        tags == AllTags(interactions)
        tagCounts == [tag \in {tags[i] : i \in 1..Len(tags)} |->
                         Cardinality({i \in 1..Len(tags) : tags[i] = tag})]
        hues == colorPrefs.huePreferences
        counted == [j \in 1..Len(hueRanges) |->
                       [min |-> hueRanges[j].min, max |-> hueRanges[j].max,
                        count |-> Cardinality({i \in 1..Len(hues) : FindHueRange(hues[i]) = j}),
                        name |-> hueRanges[j].name]]
    IN  [totalInteractions |-> Len(interactions),
         favoriteSchemes |-> schemePreferences,
         favoriteHueRanges |-> FilterCounted(counted),
         favoriteSaturationRange |->
             [min |-> FracMax(FracOfInt(0), FracSub(colorPrefs.saturationPreference, Frac(2, 10))),
              max |-> FracMin(FracOfInt(1), FracAdd(colorPrefs.saturationPreference, Frac(2, 10)))],
         favoriteLightnessRange |->
             [min |-> FracMax(FracOfInt(0), FracSub(colorPrefs.lightnessPreference, Frac(2, 10))),
              max |-> FracMin(FracOfInt(1), FracAdd(colorPrefs.lightnessPreference, Frac(2, 10)))],
         commonTags |-> tagCounts,
         recentActivity |-> SubSeq(interactions, Max2(1, Len(interactions) - 19), Len(interactions))]

(***************************************************************************)
(* One call of the preference functions.                                   *)
(***************************************************************************)
MaxHistoryLen == 3
MaxLongHistoryExtra == 2

ColorsOf(hsls) == [i \in 1..Len(hsls) |-> createColorFromHsl(hsls[i])]
Hsl(h, s, l) == [h |-> h, s |-> s, l |-> l]

Interaction(type, scheme, hsls, tags) ==
    [type |-> type, scheme |-> scheme, colors |-> ColorsOf(hsls), tags |-> tags]

Interactions ==
    {Interaction("save", "analogous", <<Hsl(10, 1, 1)>>, <<"warm">>),
     Interaction("save", "triadic", <<Hsl(0, 100, 50), Hsl(120, 100, 50)>>, <<>>),
     Interaction("edit", "complementary", <<Hsl(350, 0, 1), Hsl(20, 1, 0)>>, <<"warm", "ui">>),
     Interaction("generate", "analogous", <<Hsl(200, 80, 15)>>, <<>>),
     Interaction("view", "random", <<Hsl(100, 50, 50)>>, <<>>),
     Interaction("save", "monochromatic", <<>>, <<"ui">>),
     \* a saved color made from RGB, whose hue the conversion rounds to 360
     [type |-> "save", scheme |-> "complementary",
      colors |-> <<createColorFromRgb([r |-> 255, g |-> 0, b |-> 1])>>, tags |-> <<>>]}

ShortHistories ==
    UNION {[1..n -> Interactions] : n \in 0..MaxHistoryLen}

\* Histories longer than the 20 interactions kept as recent activity.
LongHistories ==
    {[i \in 1..(20 + k) |-> IF i <= k THEN old ELSE recent] :
        old \in Interactions, recent \in Interactions, k \in 1..MaxLongHistoryExtra}

Histories == ShortHistories \cup LongHistories

ScoredPalette(scheme, hsls) ==
    [id |-> 1, colors |-> ColorsOf(hsls), scheme |-> scheme,
     metadata |-> [generationMethod |-> "scheme"]]

ScoredPalettes ==
    {ScoredPalette("analogous", <<Hsl(10, 1, 1), Hsl(350, 1, 0), Hsl(40, 0, 1)>>),
     ScoredPalette("triadic", <<Hsl(0, 100, 50), Hsl(120, 100, 50), Hsl(240, 100, 50)>>),
     ScoredPalette("triadic", <<Hsl(0, 60, 50), Hsl(120, 60, 50), Hsl(240, 60, 50)>>),
     ScoredPalette("analogous", <<Hsl(200, 80, 15), Hsl(215, 80, 15)>>),
     ScoredPalette("monochromatic", <<Hsl(200, 80, 15)>>),
     ScoredPalette("complementary", <<Hsl(359, 0, 0), Hsl(179, 0, 0)>>),
     ScoredPalette("random", <<>>)}

AnalyzeColorPreferences ==
    /\ op = "init"
    /\ \E interactions \in Histories :
          /\ op' = "analyzeColorPreferences"
          /\ arg' = [interactions |-> interactions]
          /\ res' = analyzeColorPreferences(interactions)
    /\ UNCHANGED <<fpTieUp, storeVars, callerVars, editorVars>>

AnalyzeSchemePreferences ==
    /\ op = "init"
    /\ \E interactions \in Histories :
          /\ op' = "analyzeSchemePreferences"
          /\ arg' = [interactions |-> interactions]
          /\ res' = analyzeSchemePreferences(interactions)
    /\ UNCHANGED <<fpTieUp, storeVars, callerVars, editorVars>>

BuildUserPreferences ==
    /\ op = "init"
    /\ \E interactions \in Histories :
          /\ op' = "buildUserPreferences"
          /\ arg' = [interactions |-> interactions]
          /\ res' = buildUserPreferences(interactions)
    /\ UNCHANGED <<fpTieUp, storeVars, callerVars, editorVars>>

\* calculatePreferenceScore on the preferences built from a history.
CalculatePreferenceScore ==
    /\ op = "init"
    /\ \E palette \in ScoredPalettes, interactions \in Histories :
          /\ op' = "calculatePreferenceScore"
          /\ arg' = [palette |-> palette, interactions |-> interactions]
          /\ res' = calculatePreferenceScore(palette, buildUserPreferences(interactions))
    /\ UNCHANGED <<fpTieUp, storeVars, callerVars, editorVars>>

NextPrefs ==
    \/ AnalyzeColorPreferences
    \/ AnalyzeSchemePreferences
    \/ BuildUserPreferences
    \/ CalculatePreferenceScore

SpecPrefs == InitCall /\ [][NextPrefs]_vars

(***************************************************************************)
(* Claims about preference scoring (checked under SpecPrefs).              *)
(***************************************************************************)
\* C10: for a palette of at least one color and the preferences built from
\* any history, calculatePreferenceScore is an integer from 0 to 100.
C10_ScoreWithinRange ==
    (op = "calculatePreferenceScore" /\ Len(arg.palette.colors) >= 1)
        => res \in 0..100

\* A history whose colors are far from the palette's: the raw score is
\* below zero and the clamp acts.
C10_Witness ==
    /\ op = "calculatePreferenceScore"
    /\ Len(arg.palette.colors) >= 1
    /\ analyzeColorPreferences(arg.interactions).huePreferences # <<>>
    /\ res = 0

\* The state after calculatePreferenceScore on a palette of at least one color.
ScoredNonEmptyPalette ==
    op = "calculatePreferenceScore" /\ Len(arg.palette.colors) >= 1

\* C11: for any palette, the score against the preferences built from the
\* empty history is exactly 50.
C11_EmptyHistoryScoresFifty ==
    (op = "calculatePreferenceScore" /\ arg.interactions = <<>>)
        => res = 50

\* The empty history scored against a palette that has colors.
C11_Witness ==
    /\ ScoredNonEmptyPalette
    /\ arg.interactions = <<>>
    /\ res = 50

\* C12: when one scheme X holds all of the recorded scheme counts of the
\* history, a palette of scheme X with colors in the Color model's ranges
\* scores strictly above 50.
C12_SameSchemeScoresAboveFifty ==
    (/\ ScoredNonEmptyPalette
     /\ \A i \in 1..Len(arg.interactions) :
           arg.interactions[i].scheme = arg.palette.scheme
     /\ DOMAIN analyzeSchemePreferences(arg.interactions) = {arg.palette.scheme})
        => res > 50

\* C13: a palette color counts as matching exactly when its hue is within
\* 30 degrees, measured around the wheel, of some preferred hue.  Stated so
\* that either reading of a distance of exactly 30 is accepted.
C13_HueMatchIsCircular ==
    ScoredNonEmptyPalette
        => LET hues == analyzeColorPreferences(
                           buildUserPreferences(arg.interactions).recentActivity).huePreferences
               matching == matchingHueIndices(arg.palette, hues)
           IN  \A i \in 1..Len(arg.palette.colors) :
                  /\ i \in matching
                        => \E j \in 1..Len(hues) :
                              CircularDistance(arg.palette.colors[i].hsl.h, hues[j]) <= 30
                  /\ (\E j \in 1..Len(hues) :
                         CircularDistance(arg.palette.colors[i].hsl.h, hues[j]) < 30)
                        => i \in matching

\* C14: buildUserPreferences of n interactions has totalInteractions = n and
\* recentActivity equal to the last min(n, 20) of them, in order.
C14_RecentActivityIsLastTwenty ==
    op = "buildUserPreferences"
        => LET n == Len(arg.interactions)
               kept == Min2(n, 20)
           IN  /\ res.totalInteractions = n
               /\ Len(res.recentActivity) = kept
               /\ \A i \in 1..kept :
                     res.recentActivity[i] = arg.interactions[n - kept + i]

\* A history of more than 20 interactions whose oldest differs from the rest.
C14_Witness ==
    /\ op = "buildUserPreferences"
    /\ Len(arg.interactions) > 20
    /\ arg.interactions[1] # arg.interactions[Len(arg.interactions)]
    /\ Len(res.recentActivity) = 20
    /\ res.totalInteractions = Len(arg.interactions)

FracWithinUnit(x) == ~FracLess(x, FracOfInt(0)) /\ ~FracLess(FracOfInt(1), x)

\* C15: for every history both bounds of favoriteSaturationRange and of
\* favoriteLightnessRange lie in [0, 1], and min <= max.
C15_RangesWithinUnit ==
    op = "buildUserPreferences"
        => /\ FracWithinUnit(res.favoriteSaturationRange.min)
           /\ FracWithinUnit(res.favoriteSaturationRange.max)
           /\ FracWithinUnit(res.favoriteLightnessRange.min)
           /\ FracWithinUnit(res.favoriteLightnessRange.max)
           /\ ~FracLess(res.favoriteSaturationRange.max, res.favoriteSaturationRange.min)
           /\ ~FracLess(res.favoriteLightnessRange.max, res.favoriteLightnessRange.min)

\* Reorderings of a history: every permutation of a short one; for a long
\* one, the exchanges of its first interaction with another.
Reorderings(interactions) ==
    LET n == Len(interactions)
    IN  IF n <= MaxHistoryLen
        THEN {[i \in 1..n |-> interactions[f[i]]] : f \in Permutations(1..n)}
        ELSE {[i \in 1..n |-> IF i = 1 THEN interactions[j]
                              ELSE IF i = j THEN interactions[1]
                              ELSE interactions[i]] : j \in 2..n}

SameAggregates(x, y) ==
    /\ x.totalInteractions = y.totalInteractions
    /\ x.favoriteSchemes = y.favoriteSchemes
    /\ x.favoriteHueRanges = y.favoriteHueRanges
    /\ x.favoriteSaturationRange = y.favoriteSaturationRange
    /\ x.favoriteLightnessRange = y.favoriteLightnessRange
    /\ x.commonTags = y.commonTags

AlternativeTable ==
    [complementary |-> "triadic",
     analogous |-> "complementary",
     triadic |-> "analogous",
     tetradic |-> "complementary",
     monochromatic |-> "analogous"]

\* C20: for count >= 8 and a non-random scheme, the palette of rank 8 is
\* generated from the unmodified base with the scheme of the fixed table,
\* which differs from the requested one; for random it keeps scheme random;
\* the palette of every other rank, and requestedScheme, carry the requested
\* scheme.
C20_AlternativeSchemeAtRankEight ==
    (op = "generateSuggestions" /\ arg.count \in 1..10)
        => /\ res.requestedScheme = arg.scheme
           /\ \A r \in 1..arg.count :
                 r # 8 => res.suggestions[r].palette.scheme = arg.scheme
           /\ arg.count >= 8
                 => LET eighth == res.suggestions[8].palette
                    IN  IF arg.scheme # "random"
                        THEN /\ eighth.scheme = AlternativeTable[arg.scheme]
                             /\ eighth.scheme # arg.scheme
                             /\ eighth.colors
                                    = generatePalette(arg.base, AlternativeTable[arg.scheme],
                                                      5, arg.seed, 1)
                        ELSE eighth.scheme = "random"

\* A monochromatic request for all ten suggestions: rank 8 is analogous.
C20_Witness ==
    /\ op = "generateSuggestions"
    /\ arg.scheme = "monochromatic"
    /\ arg.count = 10
    /\ res.suggestions[8].palette.scheme = "analogous"
    /\ res.suggestions[8].palette.colors = generateAnalogous(arg.base, 5)
    /\ res.suggestions[9].palette.scheme = "monochromatic"

(***************************************************************************)
(* Personalized recommendations (learning/recommendations) and the parser  *)
(* of the prompt module (ai/prompt).  The reply of the AI service is an    *)
(* input.  A reply is one of                                               *)
(*   [kind |-> "request-failed"] the request threw,                        *)
(*   [kind |-> "non-text"]       its first content block is not text,      *)
(*   [kind |-> "no-json"]        the text holds no bracketed part,         *)
(*   [kind |-> "invalid-json"]   JSON.parse throws on the bracketed part,  *)
(*   [kind |-> "json", data |-> d]  JSON.parse returns d.                  *)
(* JSON values are tagged records: [kind |-> "absent"], [kind |-> "null"], *)
(* [kind |-> "number"], [kind |-> "string", value |-> v] and               *)
(* [kind |-> "array", items |-> seq]; a color string's value is its        *)
(* sequence of characters.  Palette ids number the accepted candidates.    *)
(***************************************************************************)
Absent == [kind |-> "absent"]
JsonNumber == [kind |-> "number"]
JsonString(v) == [kind |-> "string", value |-> v]
JsonArray(items) == [kind |-> "array", items |-> items]

\* /^#[0-9A-F]{6}$/i.test(color)
hexRegexTest(chars) ==
    /\ Len(chars) = 7
    /\ chars[1] = "#"
    /\ \A i \in 2..7 : IsHexDigit(chars[i])

\* item.reasoning || 'Personalized recommendation'
reasoningOrDefault(item) ==
    IF item.reasoning.kind = "string" /\ item.reasoning.value # ""
    THEN item.reasoning.value ELSE "Personalized recommendation"

\* The colors pushed for one candidate: the strings that pass the regex.
RECURSIVE acceptedColors(_)
acceptedColors(items) ==
    IF items = <<>> THEN <<>>
    ELSE (IF items[1].kind = "string" /\ hexRegexTest(items[1].value)
          THEN <<createColorFromHex(items[1].value)>> ELSE <<>>)
             \o acceptedColors(Tail(items))

\* Whether a candidate of the reply reaches recommendations.push.
passesChecks(item) ==
    /\ item.colors.kind = "array"
    /\ Len(item.colors.items) = 5
    /\ item.scheme.kind = "string"
    /\ item.scheme.value # ""
    /\ Len(acceptedColors(item.colors.items)) = 5

RECURSIVE pushRecommendations(_, _)
pushRecommendations(data, made) ==
    IF data = <<>> THEN <<>>
    ELSE IF passesChecks(data[1])
         THEN <<[palette |-> [id |-> made + 1,
                              colors |-> acceptedColors(data[1].colors.items),
                              scheme |-> data[1].scheme.value,
                              metadata |-> [generationMethod |-> "prompt",
                                            aiReasoning |-> reasoningOrDefault(data[1])]],
                 reasoning |-> reasoningOrDefault(data[1])]>>
                  \o pushRecommendations(Tail(data), made + 1)
         ELSE pushRecommendations(Tail(data), made)

\* parseRecommendations; reading a property of a null candidate throws.
parseRecommendations(content) ==
    CASE content.kind = "no-json" -> Err("Invalid response format from AI")
      [] content.kind = "invalid-json" -> Err("SyntaxError")
      [] content.kind = "json" ->
            IF \E i \in 1..Len(content.data) : content.data[i].kind = "null"
            THEN Err("TypeError")
            ELSE pushRecommendations(content.data, 0)

\* scoredRecommendations.sort((a, b) => b.score - a.score): stable.
RECURSIVE InsertByScore(_, _)
InsertByScore(sorted, rec) ==
    IF sorted = <<>> THEN <<rec>>
    ELSE IF sorted[1].score >= rec.score
         THEN <<sorted[1]>> \o InsertByScore(Tail(sorted), rec)
         ELSE <<rec>> \o sorted

RECURSIVE SortByScore(_)
SortByScore(recs) ==
    IF recs = <<>> THEN <<>>
    ELSE InsertByScore(SortByScore(SubSeq(recs, 1, Len(recs) - 1)), recs[Len(recs)])

generatePersonalizedRecommendations(interactions, count, apiKey, response) ==
    IF Len(interactions) < 3
    THEN Err("Need at least 3 interactions to generate personalized recommendations")
    ELSE IF ~apiKey
    THEN Err("ANTHROPIC_API_KEY environment variable is required")
    ELSE IF response.kind = "request-failed"
    THEN Err("APIError")
    ELSE IF response.kind = "non-text"
    THEN Err("Unexpected response type from AI")
    ELSE LET preferences == buildUserPreferences(interactions)
             recommendations == parseRecommendations(response)
         IN  IF IsErr(recommendations) THEN recommendations
             ELSE LET scored ==
                          [i \in 1..Len(recommendations) |->
                              [palette |-> recommendations[i].palette,
                               reasoning |-> recommendations[i].reasoning,
                               score |-> calculatePreferenceScore(
                                             recommendations[i].palette, preferences)]]
                      sorted == SortByScore(scored)
                  IN  SubSeq(sorted, 1, Min2(count, Len(sorted)))

\* parsePaletteResponse of the prompt module: any failed check throws.
parsePaletteResponse(content) ==
    CASE content.kind = "no-json" -> Err("Invalid response format from AI")
      [] content.kind = "invalid-json" -> Err("SyntaxError")
      [] content.kind = "json" ->
            LET data == content.data
            IN  IF data.colors.kind # "array" \/ Len(data.colors.items) # 5
                THEN Err("Response must contain exactly 5 colors")
                ELSE IF data.scheme.kind # "string" \/ data.scheme.value = ""
                THEN Err("Response must include a color scheme")
                ELSE IF \E i \in 1..5 :
                           \/ data.colors.items[i].kind # "string"
                           \/ ~hexRegexTest(data.colors.items[i].value)
                THEN Err("Invalid hex color")
                ELSE [colors |-> [i \in 1..5 |-> data.colors.items[i].value],
                      scheme |-> data.scheme.value,
                      reasoning |-> IF data.reasoning.kind = "string"
                                    THEN data.reasoning.value ELSE ""]

(***************************************************************************)
(* One call of the recommendation functions.                               *)
(***************************************************************************)
MaxCandidates == 2

UpperHex(r, g, b) == JsonString(rgbToHex([r |-> r, g |-> g, b |-> b]))
LowerHex(r, g, b) == JsonString(<<"#">> \o ToHex2(r) \o ToHex2(g) \o ToHex2(b))

FiveColors ==
    <<UpperHex(255, 87, 51), LowerHex(199, 0, 57), UpperHex(144, 12, 63),
      LowerHex(88, 24, 69), UpperHex(255, 195, 0)>>

Candidate(colors, scheme, reasoning) ==
    [kind |-> "object", colors |-> colors, scheme |-> scheme, reasoning |-> reasoning]

Candidates ==
    {Candidate(JsonArray(FiveColors), JsonString("analogous"), JsonString("warm")),
     Candidate(JsonArray([i \in 1..5 |-> LowerHex(0, 0, 17 * i)]), JsonString("monochromatic"), Absent),
     Candidate(JsonArray(FiveColors), JsonString("pastel"), Absent),
     Candidate(JsonArray(SubSeq(FiveColors, 1, 4)), JsonString("triadic"), Absent),
     Candidate(JsonArray(FiveColors \o <<UpperHex(0, 0, 0)>>), JsonString("triadic"), Absent),
     Candidate(JsonArray([FiveColors EXCEPT ![3] = JsonString(<<"#", "F", "F", "F">>)]),
               JsonString("triadic"), Absent),
     Candidate(JsonArray([FiveColors EXCEPT ![5] = JsonString(<<"#", "G", "0", "0", "0", "0", "0">>)]),
               JsonString("tetradic"), Absent),
     Candidate(JsonArray([FiveColors EXCEPT ![1] = JsonNumber]), JsonString("random"), Absent),
     Candidate(Absent, JsonString("complementary"), Absent),
     Candidate(JsonArray(FiveColors), Absent, JsonString("no scheme")),
     Candidate(JsonArray(FiveColors), JsonString(""), Absent),
     Candidate(JsonArray(FiveColors), JsonNumber, Absent),
     [kind |-> "null"]}

Contents ==
    {[kind |-> "no-json"], [kind |-> "invalid-json"]}
        \cup {[kind |-> "json", data |-> d] :
                 d \in UNION {[1..n -> Candidates] : n \in 0..MaxCandidates}}

Responses == {[kind |-> "request-failed"], [kind |-> "non-text"]} \cup Contents

PaletteContents ==
    {[kind |-> "no-json"], [kind |-> "invalid-json"]}
        \cup {[kind |-> "json", data |-> d] : d \in Candidates \ {[kind |-> "null"]}}

RecommendationHistories ==
    {<<Interaction("save", "analogous", <<Hsl(10, 1, 1)>>, <<"warm">>),
       Interaction("generate", "analogous", <<Hsl(200, 80, 15)>>, <<>>)>>,
     <<Interaction("save", "analogous", <<Hsl(10, 1, 1)>>, <<"warm">>),
       Interaction("generate", "monochromatic", <<Hsl(200, 80, 15)>>, <<>>),
       Interaction("view", "random", <<Hsl(100, 50, 50)>>, <<>>)>>,
     <<Interaction("generate", "analogous", <<Hsl(200, 80, 15)>>, <<>>),
       Interaction("generate", "analogous", <<Hsl(200, 80, 15)>>, <<>>),
       Interaction("view", "random", <<Hsl(100, 50, 50)>>, <<>>)>>}

ParseRecommendations ==
    /\ op = "init"
    /\ \E content \in Contents :
          /\ op' = "parseRecommendations"
          /\ arg' = [content |-> content]
          /\ res' = parseRecommendations(content)
    /\ UNCHANGED <<fpTieUp, storeVars, callerVars, editorVars>>

GeneratePersonalizedRecommendations ==
    /\ op = "init"
    /\ \E interactions \in RecommendationHistories, count \in {1, 5},
          apiKey \in BOOLEAN, response \in Responses :
          /\ op' = "generatePersonalizedRecommendations"
          /\ arg' = [interactions |-> interactions, count |-> count,
                     apiKey |-> apiKey, response |-> response]
          /\ res' = generatePersonalizedRecommendations(interactions, count, apiKey, response)
    /\ UNCHANGED <<fpTieUp, storeVars, callerVars, editorVars>>

ParsePaletteResponse ==
    /\ op = "init"
    /\ \E content \in PaletteContents :
          /\ op' = "parsePaletteResponse"
          /\ arg' = [content |-> content]
          /\ res' = parsePaletteResponse(content)
    /\ UNCHANGED <<fpTieUp, storeVars, callerVars, editorVars>>

NextReco ==
    \/ ParseRecommendations
    \/ GeneratePersonalizedRecommendations
    \/ ParsePaletteResponse

SpecReco == InitCall /\ [][NextReco]_vars

(***************************************************************************)
(* Claims about the recommendations (checked under SpecReco).              *)
(***************************************************************************)
\* The two checks of the claim, on a candidate of the reply.
HasFiveHexColors(item) ==
    /\ item.kind = "object"
    /\ item.colors.kind = "array"
    /\ Len(item.colors.items) = 5
    /\ \A i \in 1..5 :
          /\ item.colors.items[i].kind = "string"
          /\ hexRegexTest(item.colors.items[i].value)
HasKnownScheme(item) ==
    /\ item.kind = "object"
    /\ item.scheme.kind = "string"
    /\ item.scheme.value \in Schemes

RECURSIVE CandidatesPassingBoth(_)
CandidatesPassingBoth(data) ==
    IF data = <<>> THEN <<>>
    ELSE (IF HasFiveHexColors(data[1]) /\ HasKnownScheme(data[1])
          THEN <<data[1]>> ELSE <<>>)
             \o CandidatesPassingBoth(Tail(data))

\* C18: every accepted candidate has exactly 5 colors matching the hex
\* pattern and one of the 6 scheme tags; the candidates that fail either
\* check are dropped, so the accepted ones are those that pass both, in
\* order.
C18_AcceptedCandidatesAreValid ==
    (op = "parseRecommendations" /\ ~IsErr(res))
        => LET passing == CandidatesPassingBoth(arg.content.data)
           IN  /\ Len(res) = Len(passing)
               /\ \A i \in 1..Len(res) :
                     /\ Len(res[i].palette.colors) = 5
                     /\ \A j \in 1..5 : hexRegexTest(res[i].palette.colors[j].hex)
                     /\ res[i].palette.scheme \in Schemes
                     /\ res[i].palette.scheme = passing[i].scheme.value

\* C19: when no candidate of the reply is accepted,
\* generatePersonalizedRecommendations fails; when one is, it does not.
C19_NoCandidateLeftIsAnError ==
    (/\ op = "generatePersonalizedRecommendations"
     /\ Len(arg.interactions) >= 3
     /\ arg.apiKey
     /\ arg.response.kind = "json")
        => IF \E i \in 1..Len(arg.response.data) :
                 arg.response.data[i].kind = "object" /\ passesChecks(arg.response.data[i])
           THEN ~IsErr(res)
           ELSE IsErr(res)

(***************************************************************************)
(* The favorites store (storage/favorites), one caller at a time.  Each    *)
(* operation is a whole call: initialize(), the change, save().  The       *)
(* interactions a caller tracks are numbered in the order they are         *)
(* tracked since the log was last cleared; the number stands for the       *)
(* interaction's content, and for the id nanoid gives it.                  *)
(***************************************************************************)
InteractionLogLimit == 500

\* initialize(): db.read() replaces the data by the file's when there is a file.
dataAfterInitialize ==
    IF initialized \/ ~file.exists THEN dbData
    ELSE [favorites |-> file.favorites, interactions |-> file.interactions]

\* fullInteraction of the n-th interaction tracked.
fullInteraction(n) == [id |-> n, type |-> "generate", paletteId |-> n]

\* The push of trackInteraction keeping the oldest entries on overflow.
pushInteraction_KeepOldest(interactions, interaction) ==
    LET pushed == Append(interactions, interaction)
    IN  IF Len(pushed) > InteractionLogLimit
        THEN SubSeq(pushed, 1, InteractionLogLimit)
        ELSE pushed

\* interactions.push(fullInteraction), then slice(-500) when longer than 500
pushInteraction(interactions, interaction) ==
    LET pushed == Append(interactions, interaction)
    IN  IF Len(pushed) > InteractionLogLimit
        THEN SubSeq(pushed, Len(pushed) - InteractionLogLimit + 1, Len(pushed))
        ELSE pushed

\* interactions.slice(-limit) when limit is given and positive (0: not given)
getInteractions(interactions, limit) ==
    IF limit > 0
    THEN SubSeq(interactions, Max2(1, Len(interactions) - limit + 1), Len(interactions))
    ELSE interactions

MaxTracked == 502
PriorLogLen == 3

\* The manager is constructed either without a file or on the file a former
\* run left, holding the interactions that run tracked.
InitStore ==
    /\ op = "init"
    /\ arg = <<>>
    /\ res = <<>>
    /\ fpTieUp = [k \in 1..3 |-> TRUE]
    /\ initialized = FALSE
    /\ dbData = getDefaultData
    /\ NoCalls
    /\ NoEditor
    /\ \E p \in {0, PriorLogLen} :
          /\ tracked = p
          /\ file = IF p = 0 THEN NoFile
                    ELSE FileOf([favorites |-> <<>>,
                                 interactions |-> [n \in 1..p |-> fullInteraction(n)]])

TrackInteraction ==
    /\ tracked < MaxTracked
    /\ LET loaded == dataAfterInitialize
           stored == [loaded EXCEPT !.interactions =
                         pushInteraction(loaded.interactions, fullInteraction(tracked + 1))]
       IN  /\ initialized' = TRUE
           /\ dbData' = stored
           /\ file' = FileOf(stored)
           /\ tracked' = tracked + 1
           /\ op' = "trackInteraction"
           /\ arg' = [interaction |-> tracked + 1]
           /\ res' = <<>>
    /\ UNCHANGED <<fpTieUp, callerVars, editorVars>>

GetInteractions ==
    /\ \E limit \in {0, 1, InteractionLogLimit + 100} :
          /\ initialized' = TRUE
          /\ dbData' = dataAfterInitialize
          /\ op' = "getInteractions"
          /\ arg' = [limit |-> limit]
          /\ res' = getInteractions(dataAfterInitialize.interactions, limit)
    /\ UNCHANGED <<fpTieUp, file, tracked, callerVars, editorVars>>

ClearInteractions ==
    /\ LET loaded == dataAfterInitialize
           stored == [loaded EXCEPT !.interactions = <<>>]
       IN  /\ initialized' = TRUE
           /\ dbData' = stored
           /\ file' = FileOf(stored)
           /\ tracked' = 0
           /\ op' = "clearInteractions"
           /\ arg' = <<>>
           /\ res' = Len(loaded.interactions)
    /\ UNCHANGED <<fpTieUp, callerVars, editorVars>>

NextStore ==
    \/ TrackInteraction
    \/ GetInteractions
    \/ ClearInteractions

SpecStore == InitStore /\ [][NextStore]_vars

(***************************************************************************)
(* Claims about the favorites store (checked under SpecStore).             *)
(***************************************************************************)
\* The most recent min(k, 500) of the k interactions tracked since the clear.
MostRecentTracked ==
    LET kept == Min2(tracked, InteractionLogLimit)
    IN  [i \in 1..kept |-> fullInteraction(tracked - kept + i)]

\* C17: after any sequence of trackInteraction calls the stored log has at
\* most 500 entries and is, in insertion order, the most recent min(k, 500)
\* interactions tracked since the last clear.
C17_LogKeepsMostRecent ==
    /\ initialized
          => /\ Len(dbData.interactions) <= InteractionLogLimit
             /\ dbData.interactions = MostRecentTracked
    /\ file.exists
          => /\ Len(file.interactions) <= InteractionLogLimit
             /\ file.interactions = MostRecentTracked

\* The log after the first eviction: 501 tracked, the first one gone.
C17_Witness ==
    /\ op = "trackInteraction"
    /\ tracked = InteractionLogLimit + 1
    /\ Len(dbData.interactions) = InteractionLogLimit
    /\ dbData.interactions[1] = fullInteraction(2)
    /\ file.interactions[InteractionLogLimit] = fullInteraction(InteractionLogLimit + 1)

(***************************************************************************)
(* The favorites of the store, one caller at a time (SpecFav).  A favorite *)
(* is the saved palette with its name; a palette is known by its id, the   *)
(* colors, tags and dates it carries play no part in these operations.     *)
(* incrementUsage, which changes neither the list nor an id, is left out.  *)
(***************************************************************************)
Undefined == [undefined |-> TRUE]

\* favorites.findIndex(fav => fav.id === id), counted from 1; -1 when absent
findIndex(favorites, id) ==
    IF \E i \in 1..Len(favorites) : favorites[i].id = id
    THEN CHOOSE i \in 1..Len(favorites) :
            /\ favorites[i].id = id
            /\ \A j \in 1..(i - 1) : favorites[j].id # id
    ELSE 0 - 1

\* favorites.find(fav => fav.id === id)
find(favorites, id) ==
    IF findIndex(favorites, id) = 0 - 1 THEN Undefined
    ELSE favorites[findIndex(favorites, id)]

\* the favorite saveFavorite builds: { ...palette, name, tags, usageCount: 1, savedAt }
favoriteOf(palette, name) == [id |-> palette.id, name |-> name]

\* favorites.splice(index, 1)
splice(favorites, index) ==
    SubSeq(favorites, 1, index - 1) \o SubSeq(favorites, index + 1, Len(favorites))

\* The loop of importFavorites over data.favorites from position k on; existing
\* is the set of ids taken before the loop.
RECURSIVE importLoop(_, _, _, _, _)
importLoop(favorites, existing, imported, overwrite, k) ==
    IF k > Len(imported) THEN favorites
    ELSE LET favorite == imported[k]
             next == IF favorite.id \in existing
                     THEN IF overwrite
                          THEN [favorites EXCEPT ![findIndex(favorites, favorite.id)] = favorite]
                          ELSE favorites
                     ELSE Append(favorites, favorite)
         IN  importLoop(next, existing, imported, overwrite, k + 1)

importFavorites(favorites, imported, overwrite) ==
    importLoop(favorites, {favorites[i].id : i \in 1..Len(favorites)}, imported, overwrite, 1)

MaxFavorites == 3
MaxImported == 2
PaletteIds == {"p1", "p2"}
FavoriteNames == {"a", "b"}
Favorites == {favoriteOf([id |-> id], name) : id \in PaletteIds, name \in FavoriteNames}
ImportedData == UNION {[1..n -> Favorites] : n \in 0..MaxImported}

\* The manager is constructed either without a file or on the file a former
\* run left with one favorite.
InitFav ==
    /\ op = "init"
    /\ arg = <<>>
    /\ res = <<>>
    /\ fpTieUp = [k \in 1..3 |-> TRUE]
    /\ initialized = FALSE
    /\ dbData = getDefaultData
    /\ tracked = 0
    /\ NoCalls
    /\ NoEditor
    /\ file \in {NoFile,
                 FileOf([favorites |-> <<favoriteOf([id |-> "p1"], "a")>>,
                         interactions |-> <<>>])}

SaveFavorite ==
    /\ Len(dataAfterInitialize.favorites) < MaxFavorites
    /\ \E id \in PaletteIds, name \in FavoriteNames :
          LET loaded == dataAfterInitialize
              favorite == favoriteOf([id |-> id], name)
              stored == [loaded EXCEPT !.favorites = Append(loaded.favorites, favorite)]
          IN  /\ initialized' = TRUE
              /\ dbData' = stored
              /\ file' = FileOf(stored)
              /\ op' = "saveFavorite"
              /\ arg' = [palette |-> [id |-> id], name |-> name]
              /\ res' = favorite
    /\ UNCHANGED <<fpTieUp, tracked, callerVars, editorVars>>

GetFavorite ==
    /\ \E id \in PaletteIds :
          /\ initialized' = TRUE
          /\ dbData' = dataAfterInitialize
          /\ op' = "getFavorite"
          /\ arg' = [id |-> id]
          /\ res' = find(dataAfterInitialize.favorites, id)
    /\ UNCHANGED <<fpTieUp, file, tracked, callerVars, editorVars>>

DeleteFavorite ==
    /\ \E id \in PaletteIds :
          LET loaded == dataAfterInitialize
              index == findIndex(loaded.favorites, id)
              stored == [loaded EXCEPT !.favorites = splice(loaded.favorites, index)]
          IN  /\ initialized' = TRUE
              /\ op' = "deleteFavorite"
              /\ arg' = [id |-> id]
              /\ IF index = 0 - 1
                 THEN /\ dbData' = loaded
                      /\ file' = file
                      /\ res' = FALSE
                 ELSE /\ dbData' = stored
                      /\ file' = FileOf(stored)
                      /\ res' = TRUE
    /\ UNCHANGED <<fpTieUp, tracked, callerVars, editorVars>>

Count ==
    /\ initialized' = TRUE
    /\ dbData' = dataAfterInitialize
    /\ op' = "count"
    /\ arg' = <<>>
    /\ res' = Len(dataAfterInitialize.favorites)
    /\ UNCHANGED <<fpTieUp, file, tracked, callerVars, editorVars>>

ImportFavorites ==
    /\ \E imported \in ImportedData, overwrite \in BOOLEAN :
          LET loaded == dataAfterInitialize
              stored == [loaded EXCEPT !.favorites =
                            importFavorites(loaded.favorites, imported, overwrite)]
          IN  /\ Len(loaded.favorites) + Len(imported) <= MaxFavorites
              /\ initialized' = TRUE
              /\ dbData' = stored
              /\ file' = FileOf(stored)
              /\ op' = "importFavorites"
              /\ arg' = [data |-> imported, overwrite |-> overwrite]
              /\ res' = <<>>
    /\ UNCHANGED <<fpTieUp, tracked, callerVars, editorVars>>

ClearAll ==
    /\ LET loaded == dataAfterInitialize
           stored == [loaded EXCEPT !.favorites = <<>>]
       IN  /\ initialized' = TRUE
           /\ dbData' = stored
           /\ file' = FileOf(stored)
           /\ op' = "clearAll"
           /\ arg' = <<>>
           /\ res' = Len(loaded.favorites)
    /\ UNCHANGED <<fpTieUp, tracked, callerVars, editorVars>>

NextFav ==
    \/ SaveFavorite
    \/ GetFavorite
    \/ DeleteFavorite
    \/ Count
    \/ ImportFavorites
    \/ ClearAll

SpecFav == InitFav /\ [][NextFav]_vars

(***************************************************************************)
(* Claims about the favorites (checked under SpecFav).                     *)
(***************************************************************************)
IdsOf(favorites) == {favorites[i].id : i \in 1..Len(favorites)}

\* C21: if deleteFavorite(id) returns true then getFavorite(id) right after
\* returns undefined and count() is one less than before; if it returns
\* false the favorites list is unchanged.
C21_DeleteRemovesTheFavorite ==
    [][op' = "deleteFavorite"
          => IF res' = TRUE
             THEN /\ find(dbData'.favorites, arg'.id) = Undefined
                  /\ Len(dbData'.favorites) = Len(dataAfterInitialize.favorites) - 1
             ELSE dbData'.favorites = dataAfterInitialize.favorites]_vars

\* C22: importFavorites merges by id.  Without overwrite every favorite that
\* was there is unchanged and only favorites with new ids are added; with
\* overwrite a favorite that was there with an imported id is replaced in
\* place; either way count() afterwards is the number of distinct ids among
\* the former favorites and the imported ones.
C22_ImportMergesById ==
    [][op' = "importFavorites"
          => LET before == dataAfterInitialize.favorites
                 after == dbData'.favorites
                 imported == arg'.data
             IN  /\ Len(after) = Cardinality(IdsOf(before) \cup IdsOf(imported))
                 /\ Len(after) >= Len(before)
                 /\ ~arg'.overwrite =>
                       /\ SubSeq(after, 1, Len(before)) = before
                       /\ \A i \in (Len(before) + 1)..Len(after) :
                             after[i].id \notin IdsOf(before)
                 /\ arg'.overwrite =>
                       \A i \in 1..Len(before) :
                          /\ after[i].id = before[i].id
                          /\ (before[i].id \in IdsOf(imported))
                                => \E k \in 1..Len(imported) : after[i] = imported[k]]_vars

(***************************************************************************)
(* More claims about the conversions (checked under SpecConv).             *)
(***************************************************************************)
\* The HSL of the Color model: whole hue in [0, 360), whole saturation and
\* lightness in [0, 100].
HslInColorModel(hsl) ==
    /\ hsl.h \in 0..359
    /\ hsl.s \in 0..100
    /\ hsl.l \in 0..100

\* C23: for every RGB triple of integers in [0, 255], rgbToHsl, and with it
\* createColorFromHex and createColorFromRgb, returns a whole hue in
\* [0, 360), never 360, and whole saturation and lightness in [0, 100].
C23_HueBelow360 ==
    /\ op = "rgbToHsl" => HslInColorModel(res)
    /\ (op \in {"createColorFromHex", "createColorFromRgb"} /\ ~IsErr(res))
          => HslInColorModel(res.hsl)

(***************************************************************************)
(* More claims about the generators (checked under SpecTheory).            *)
(***************************************************************************)
\* The hue at position i (from 0) of count evenly stepped positions across
\* the window of 30 degrees either side of the base hue.
SteppedHue(baseHue, count, i) ==
    IF count = 1 THEN normalizeHue(baseHue)
    ELSE normalizeHue(baseHue + (0 - angleRange) + i * ((2 * angleRange) \div (count - 1)))

\* C24: generateAnalogous(base, count) is exactly count colours whose hue
\* offsets from the base hue are -30 + i * 60 / (count - 1) for i in
\* 0..count-1 (just the base when count = 1), the base colour among them.
C24_AnalogousEvenlyStepped ==
    op = "generateAnalogous"
        => /\ Len(res) = arg.count
           /\ \E i \in 1..Len(res) : res[i] = arg.base
           /\ \A v \in 0..359 :
                 Cardinality({i \in 1..Len(res) : normalizeHue(res[i].hsl.h) = v})
                    = Cardinality({i \in 0..(arg.count - 1) :
                                      SteppedHue(arg.base.hsl.h, arg.count, i) = v})

(***************************************************************************)
(* Claims about the variations of the suggestion engine (under SpecSugg).  *)
(***************************************************************************)
\* The schemes whose palette starts with the color it is generated from.
BaseFirstSchemes == {"complementary", "triadic", "tetradic"}

\* The palettes of ranks 2, 3, 6 and 7 start with the colors they are
\* generated from, for a scheme that puts the base first.
VariationsStartPalettes ==
    (arg.scheme \in BaseFirstSchemes /\ Len(res.suggestions) >= 7)
        => \A rank \in {2, 3, 6, 7} :
              res.suggestions[rank].palette.colors[1]
                  = suggestionColor(arg.base, arg.scheme, rank)

CountsOf(ranges) == [j \in 1..Len(ranges) |-> ranges[j].count]

\* C26: buildUserPreferences counts every hue collected from the save and
\* edit interactions in exactly one bucket: the counts of favoriteHueRanges
\* add up to the number of colors in those interactions, and no returned
\* bucket has count 0.
C26_EveryHueIsCounted ==
    op = "buildUserPreferences"
        => /\ SumSeq(CountsOf(res.favoriteHueRanges))
                 = Len(SavedOrEditedColors(arg.interactions))
           /\ \A j \in 1..Len(res.favoriteHueRanges) : res.favoriteHueRanges[j].count > 0

\* C27: the score of a palette is the same for every reordering of the
\* history the preferences are built from, whatever its length.  (Scores
\* are compared as text: a score is a number or NaN.)
C27_ScoreIgnoresOrder ==
    op = "calculatePreferenceScore"
        => \A reordered \in Reorderings(arg.interactions) :
              ToString(calculatePreferenceScore(arg.palette, buildUserPreferences(reordered)))
                  = ToString(res)

(***************************************************************************)
(* Calls of the store side by side (SpecCallers).  A call runs from one    *)
(* await to the next without interruption; the steps of different calls    *)
(* interleave.  db.read() takes the file as it is at some moment between   *)
(* its start and its end and replaces db.data when there is a file;        *)
(* db.write() serialises db.data when it is called and the writer puts     *)
(* the texts on disk one after another in the order of the calls.          *)
(***************************************************************************)
NumCallers == 2
Callers == 1..NumCallers
CallKinds == {"saveFavorite", "trackInteraction"}

\* What the call of caller c pushes.
pushedBy(db, kind, c) ==
    IF kind = "saveFavorite"
    THEN [db EXCEPT !.favorites = Append(db.favorites, favoriteOf([id |-> c], "a"))]
    ELSE [db EXCEPT !.interactions = pushInteraction(db.interactions, fullInteraction(c))]

DataOf(content) == [favorites |-> content.favorites, interactions |-> content.interactions]

\* A fresh manager, with or without a file of a former run, and the calls
\* about to be made; arg[c] is the operation caller c calls.
InitCallers ==
    /\ op = "init"
    /\ arg \in [Callers -> CallKinds]
    /\ res = <<>>
    /\ fpTieUp = [k \in 1..3 |-> TRUE]
    /\ initialized = FALSE
    /\ dbData = getDefaultData
    /\ tracked = 0
    /\ file \in {NoFile,
                 FileOf([favorites |-> <<favoriteOf([id |-> 0], "a")>>,
                         interactions |-> <<fullInteraction(0)>>])}
    /\ pc = [c \in Callers |-> "start"]
    /\ reads = 0
    /\ seen = [c \in Callers |-> NoFile]
    /\ pending = <<>>
    /\ NoEditor

\* The call starts and runs to the await of initialize(): into db.read()
\* when the manager is not initialized, straight through otherwise.
StartCall ==
    /\ \E c \in Callers :
          /\ pc[c] = "start"
          /\ IF initialized
             THEN /\ pc' = [pc EXCEPT ![c] = "initialized"]
                  /\ UNCHANGED <<reads, seen>>
             ELSE /\ pc' = [pc EXCEPT ![c] = "reading"]
                  /\ reads' = reads + 1
                  /\ seen' = [seen EXCEPT ![c] = file]
    /\ UNCHANGED <<op, arg, res, fpTieUp, storeVars, pending, editorVars>>

\* db.read() of a call ends: db.data is replaced by what was read, if there
\* was a file, and initialize() sets initialized.
ReadCompletes ==
    /\ \E c \in Callers :
          /\ pc[c] = "reading"
          /\ \E content \in {seen[c], file} :
                dbData' = IF content.exists THEN DataOf(content) ELSE dbData
          /\ initialized' = TRUE
          /\ pc' = [pc EXCEPT ![c] = "initialized"]
    /\ UNCHANGED <<op, arg, res, fpTieUp, file, tracked, reads, seen, pending, editorVars>>

\* The call goes on after initialize(): it pushes its entry and save()
\* hands the serialised data to the writer.  (The import of nanoid that
\* trackInteraction awaits first changes nothing shared.)
PushAndSave ==
    /\ \E c \in Callers :
          /\ pc[c] = "initialized"
          /\ dbData' = pushedBy(dbData, arg[c], c)
          /\ pending' = Append(pending, [caller |-> c, content |-> FileOf(dbData')])
          /\ pc' = [pc EXCEPT ![c] = "writing"]
    /\ UNCHANGED <<op, arg, res, fpTieUp, initialized, file, tracked, reads, seen, editorVars>>

\* The writer puts the oldest text on disk and the call that wrote it returns.
WriteCompletes ==
    /\ pending # <<>>
    /\ file' = Head(pending).content
    /\ pending' = Tail(pending)
    /\ pc' = [pc EXCEPT ![Head(pending).caller] = "done"]
    /\ UNCHANGED <<op, arg, res, fpTieUp, initialized, dbData, tracked, reads, seen, editorVars>>

NextCallers ==
    \/ StartCall
    \/ ReadCompletes
    \/ PushAndSave
    \/ WriteCompletes

SpecCallers == InitCallers /\ [][NextCallers]_vars

(***************************************************************************)
(* Claims about concurrent calls (checked under SpecCallers).              *)
(***************************************************************************)
AllDone == \A c \in Callers : pc[c] = "done"

\* Every call was started before initialization had completed: each of
\* them found initialized false, and started a read.
AllStartedBeforeInitialized == reads = NumCallers

\* The entry of every call is in db (the data in memory or the file).
EntriesPresentIn(db) ==
    \A c \in Callers :
       IF arg[c] = "saveFavorite"
       THEN \E i \in 1..Len(db.favorites) : db.favorites[i] = favoriteOf([id |-> c], "a")
       ELSE \E i \in 1..Len(db.interactions) : db.interactions[i] = fullInteraction(c)

\* C28: on a fresh manager, when two mutating operations are started before
\* initialization has completed, the database is read from disk only once
\* and, after both complete, both entries are in memory and on disk.
C28_ConcurrentCallsLoseNothing ==
    (AllDone /\ AllStartedBeforeInitialized)
        => /\ reads = 1
           /\ EntriesPresentIn(dbData)
           /\ file.exists /\ EntriesPresentIn(file)

(***************************************************************************)
(* The interactive palette editor (tui/PaletteEditor).  A step is a key    *)
(* pressed, with the state updates its handler makes; op is the key.  The  *)
(* text typed into the input field is a sequence of characters, replaced   *)
(* as a whole by typing.  The editor divides the saturation and lightness  *)
(* it is given by 100, so the colors of its palette carry them as          *)
(* fractions (n / d in lowest terms); hues stay whole numbers.             *)
(***************************************************************************)
DecimalDigits == <<"0", "1", "2", "3", "4", "5", "6", "7", "8", "9">>
IsDecimalDigit(c) == \E i \in 1..10 : DecimalDigits[i] = c
DecimalValue(c) == (CHOOSE i \in 1..10 : DecimalDigits[i] = c) - 1

\* The value of the digits of text from position i on, up to the first
\* character that is not a digit.
RECURSIVE DigitsValue(_, _, _)
DigitsValue(text, i, acc) ==
    IF i > Len(text) \/ ~IsDecimalDigit(text[i]) THEN acc
    ELSE DigitsValue(text, i + 1, 10 * acc + DecimalValue(text[i]))

\* parseInt(value, 10): an optional sign and the digits that follow; NaN
\* when no digit follows.
parseInt(text) ==
    LET signed == Len(text) >= 1 /\ text[1] \in {"-", "+"}
        first == IF signed THEN 2 ELSE 1
        magnitude == DigitsValue(text, first, 0)
    IN  IF first > Len(text) \/ ~IsDecimalDigit(text[first])
        THEN [nan |-> TRUE, value |-> 0]
        ELSE [nan |-> FALSE,
              value |-> IF signed /\ text[1] = "-" THEN 0 - magnitude ELSE magnitude]

\* Number.prototype.toString of a whole number n >= 0
RECURSIVE numberToString(_)
numberToString(n) ==
    IF n < 10 THEN <<DecimalDigits[n + 1]>>
    ELSE numberToString(n \div 10) \o <<DecimalDigits[(n % 10) + 1]>>

\* hue2rgb of hslToRgb on fractions; t is in degrees (t of the code, times 360).
hue2rgbFrac(p, q, t) ==
    LET t1 == IF t < 0 THEN t + 360 ELSE t
        t2 == IF t1 > 360 THEN t1 - 360 ELSE t1
    IN  IF t2 < 60 THEN FracAdd(p, FracMul(FracSub(q, p), Frac(t2, 60)))
        ELSE IF t2 < 180 THEN q
        ELSE IF t2 < 240 THEN FracAdd(p, FracMul(FracSub(q, p), Frac(240 - t2, 60)))
        ELSE p

\* hslToRgb on a hue in degrees and a saturation and lightness that are
\* fractions.
hslToRgbFrac(hsl) ==
    LET s == FracMul(hsl.s, Frac(1, 100))
        l == FracMul(hsl.l, Frac(1, 100))
        q == IF FracLess(l, Frac(1, 2))
             THEN FracMul(l, FracAdd(FracOfInt(1), s))
             ELSE FracSub(FracAdd(l, s), FracMul(l, s))
        p == FracSub(FracMul(FracOfInt(2), l), q)
        channel(t) == LET x == hue2rgbFrac(p, q, t) IN Round(255 * x.n, x.d, hueSite(t))
        gray == Round(255 * l.n, l.d, 1)
    IN  IF s.n = 0
        THEN [r |-> gray, g |-> gray, b |-> gray]
        ELSE [r |-> channel(hsl.h + 120),
              g |-> channel(hsl.h),
              b |-> channel(hsl.h - 120)]

\* createColorFromHsl on such an hsl.
createColorFromHslFrac(hsl) ==
    LET rgb == hslToRgbFrac(hsl)
    IN  [hex |-> rgbToHex(rgb), rgb |-> rgb, hsl |-> hsl]

\* Math.round(x * 100) of a fraction x >= 0
roundTimes100(x) == Round(100 * x.n, x.d, 1)

\* The color the edit of applyEdit makes of currentColor; numValue is the
\* number parsed.
editedColor(editMode, currentColor, numValue) ==
    CASE editMode = "edit-hue" ->
            createColorFromHslFrac([h |-> Max2(0, Min2(360, numValue)),
                                    s |-> currentColor.hsl.s,
                                    l |-> currentColor.hsl.l])
      [] editMode = "edit-saturation" ->
            createColorFromHslFrac([h |-> currentColor.hsl.h,
                                    s |-> Frac(Max2(0, Min2(100, numValue)), 100),
                                    l |-> currentColor.hsl.l])
      [] editMode = "edit-lightness" ->
            createColorFromHslFrac([h |-> currentColor.hsl.h,
                                    s |-> currentColor.hsl.s,
                                    l |-> Frac(Max2(0, Min2(100, numValue)), 100)])

\* A Color of the program as the editor holds it.
EditorColor(hsl) ==
    LET color == createColorFromHsl(hsl)
    IN  [hex |-> color.hex, rgb |-> color.rgb,
         hsl |-> [h |-> hsl.h, s |-> FracOfInt(hsl.s), l |-> FracOfInt(hsl.l)]]

EditorPalette(scheme, hsls) ==
    [id |-> 1, colors |-> [i \in 1..Len(hsls) |-> EditorColor(hsls[i])],
     scheme |-> scheme, metadata |-> [generationMethod |-> "scheme"]]

EditorPalettes ==
    {EditorPalette("monochromatic", <<Hsl(0, 100, 50), Hsl(0, 0, 0)>>),
     EditorPalette("random", <<>>)}

\* What is typed into the input field.
EditTexts == {<<>>, <<"5", "0">>, <<"4", "0", "0">>, <<"-", "5">>}

EditModes == {"edit-hue", "edit-saturation", "edit-lightness"}

\* The editor is mounted on a palette; arg is the palette it was given.
InitEditor ==
    /\ op = "init"
    /\ res = <<>>
    /\ fpTieUp = [k \in 1..3 |-> TRUE]
    /\ StoreFresh
    /\ NoCalls
    /\ \E initialPalette \in EditorPalettes :
          /\ arg = [palette |-> initialPalette]
          /\ editorPalette = initialPalette
    /\ selectedIndex = 0
    /\ mode = "navigate"
    /\ editValue = <<>>
    /\ closed = "no"

\* Left arrow: the handler acts in navigate mode only.
PressLeft ==
    /\ closed = "no"
    /\ op' = "leftArrow"
    /\ selectedIndex' = IF mode = "navigate" /\ selectedIndex > 0
                        THEN selectedIndex - 1 ELSE selectedIndex
    /\ UNCHANGED <<arg, res, fpTieUp, storeVars, callerVars, editorPalette, mode,
                   editValue, closed>>

PressRight ==
    /\ closed = "no"
    /\ op' = "rightArrow"
    /\ selectedIndex' = IF mode = "navigate" /\ selectedIndex < Len(editorPalette.colors) - 1
                        THEN selectedIndex + 1 ELSE selectedIndex
    /\ UNCHANGED <<arg, res, fpTieUp, storeVars, callerVars, editorPalette, mode,
                   editValue, closed>>

\* h, s or l in navigate mode: the edit of that channel starts on its
\* present value, if there is a selected color.
PressChannelKey ==
    /\ closed = "no"
    /\ mode = "navigate"
    /\ \E key \in {"h", "s", "l"} :
          /\ op' = key
          /\ IF selectedIndex + 1 \in 1..Len(editorPalette.colors)
             THEN LET color == editorPalette.colors[selectedIndex + 1]
                  IN  /\ editValue' = CASE key = "h" -> numberToString(color.hsl.h)
                                        [] key = "s" -> numberToString(roundTimes100(color.hsl.s))
                                        [] key = "l" -> numberToString(roundTimes100(color.hsl.l))
                      /\ mode' = CASE key = "h" -> "edit-hue"
                                   [] key = "s" -> "edit-saturation"
                                   [] key = "l" -> "edit-lightness"
             ELSE UNCHANGED <<editValue, mode>>
    /\ UNCHANGED <<arg, res, fpTieUp, storeVars, callerVars, editorPalette,
                   selectedIndex, closed>>

\* w in navigate mode: onSave(palette), exit().
PressW ==
    /\ closed = "no"
    /\ mode = "navigate"
    /\ op' = "w"
    /\ res' = [saved |-> editorPalette]
    /\ closed' = "saved"
    /\ UNCHANGED <<arg, fpTieUp, storeVars, callerVars, editorPalette, selectedIndex,
                   mode, editValue>>

\* q in navigate mode: onExit(), exit().
PressQ ==
    /\ closed = "no"
    /\ mode = "navigate"
    /\ op' = "q"
    /\ closed' = "exited"
    /\ UNCHANGED <<arg, res, fpTieUp, storeVars, callerVars, editorPalette,
                   selectedIndex, mode, editValue>>

\* Esc: onExit(), exit() in navigate mode; in an edit mode the handler does
\* nothing and the input field takes no character from it.
PressEscape ==
    /\ closed = "no"
    /\ op' = "escape"
    /\ closed' = IF mode = "navigate" THEN "exited" ELSE closed
    /\ UNCHANGED <<arg, res, fpTieUp, storeVars, callerVars, editorPalette,
                   selectedIndex, mode, editValue>>

\* Typing in an edit mode: the input field calls setEditValue.
TypeText ==
    /\ closed = "no"
    /\ mode \in EditModes
    /\ op' = "type"
    /\ \E text \in EditTexts : editValue' = text
    /\ UNCHANGED <<arg, res, fpTieUp, storeVars, callerVars, editorPalette,
                   selectedIndex, mode, closed>>

\* Enter in an edit mode: the input field calls applyEdit(editValue).
PressReturn ==
    /\ closed = "no"
    /\ mode \in EditModes
    /\ op' = "return"
    /\ LET numValue == parseInt(editValue)
       IN  IF numValue.nan \/ selectedIndex + 1 \notin 1..Len(editorPalette.colors)
           THEN UNCHANGED <<editorPalette, mode, editValue>>
           ELSE /\ editorPalette' =
                      [editorPalette EXCEPT !.colors[selectedIndex + 1] =
                          editedColor(mode, editorPalette.colors[selectedIndex + 1],
                                      numValue.value)]
                /\ mode' = "navigate"
                /\ editValue' = <<>>
    /\ UNCHANGED <<arg, res, fpTieUp, storeVars, callerVars, selectedIndex, closed>>

NextEditor ==
    \/ PressLeft
    \/ PressRight
    \/ PressChannelKey
    \/ PressW
    \/ PressQ
    \/ PressEscape
    \/ TypeText
    \/ PressReturn

SpecEditor == InitEditor /\ [][NextEditor]_vars

(***************************************************************************)
(* Claims about the palette editor (checked under SpecEditor).             *)
(***************************************************************************)
\* C29: from any edit mode (edit-hue, edit-saturation, edit-lightness)
\* pressing Esc cancels the edit: the editor returns to navigate mode and
\* the palette is unchanged.
C29_EscapeCancelsTheEdit ==
    [][(mode \in EditModes /\ op' = "escape")
          => /\ mode' = "navigate"
             /\ editorPalette' = editorPalette]_vars

\* A whole number within [lo, hi], as a fraction.
WholeWithin(x, lo, hi) == x.d = 1 /\ x.n \in lo..hi

\* The Color model: hue in [0, 360), whole saturation and lightness in [0, 100].
EditorColorInModel(color) ==
    /\ color.hsl.h \in 0..359
    /\ WholeWithin(color.hsl.s, 0, 100)
    /\ WholeWithin(color.hsl.l, 0, 100)

\* The edited channel of color is v clamped to the channel's range.
EditedChannelIs(editMode, color, v) ==
    CASE editMode = "edit-hue" -> color.hsl.h = Max2(0, Min2(359, v))
      [] editMode = "edit-saturation" -> color.hsl.s = FracOfInt(Max2(0, Min2(100, v)))
      [] editMode = "edit-lightness" -> color.hsl.l = FracOfInt(Max2(0, Min2(100, v)))

\* An edit is applied: Enter in an edit mode on a number, a color selected.
EditApplied ==
    /\ op' = "return"
    /\ mode \in EditModes
    /\ ~parseInt(editValue).nan
    /\ selectedIndex + 1 \in 1..Len(editorPalette.colors)

\* C30: applying an edit with entered integer v replaces only the color at
\* selectedIndex, by a Color of the Color model whose edited channel is v
\* clamped to its range on the model's scale; the other colors, the
\* palette's id, scheme and metadata are unchanged and selectedIndex stays
\* within 0..colors.length - 1.
C30_EditReplacesOneColor ==
    [][EditApplied
          => /\ Len(editorPalette'.colors) = Len(editorPalette.colors)
             /\ \A i \in 1..Len(editorPalette.colors) :
                   i # selectedIndex + 1 => editorPalette'.colors[i] = editorPalette.colors[i]
             /\ editorPalette'.id = editorPalette.id
             /\ editorPalette'.scheme = editorPalette.scheme
             /\ editorPalette'.metadata = editorPalette.metadata
             /\ selectedIndex' \in 0..(Len(editorPalette'.colors) - 1)
             /\ EditorColorInModel(editorPalette'.colors[selectedIndex + 1])
             /\ EditedChannelIs(mode, editorPalette'.colors[selectedIndex + 1],
                                parseInt(editValue).value)]_vars

====
